---- MODULE Spec2Model ----
(***************************************************************************)
(* Model of jimyag/ripples: impact analysis of changed Go symbols.         *)
(*                                                                         *)
(*   SpecAnalyze : LSPImpactAnalyzer.Analyze, its worker goroutines, the   *)
(*                 closer goroutine and the collecting loop                *)
(*                 (internal/analyzer/lsp_analyzer.go).                    *)
(*   SpecTrace   : CallChainTracer.TraceToMain and traceIncomingCalls over *)
(*                 the call graph of testdata/shared-package-test.         *)
(*   SpecRefs    : the reference strategy for constants and variables,     *)
(*                 one function trace per containing function.             *)
(*   SpecImport  : DirectCallTracer.TraceToMain for Init and Import        *)
(*                 symbols and the search of the importing entry packages. *)
(*   SpecDirect  : the traversal of the tracer library with its boundary   *)
(*                 checks (Case 1, Case 2, isCrossServiceCall).            *)
(*   SpecCache   : the two-tier trace cache of the tracer library.         *)
(*   SpecCancel  : Analyze under a context that is cancelled.              *)
(*   SpecScore   : the score filter for the callers of interface methods.  *)
(*   SpecBoundary: the package, class and service of a caller's file and   *)
(*                 the cross-service check, over the directories of a      *)
(*                 repository.                                             *)
(*   SpecEntries : the function trace over a workspace whose entry         *)
(*                 packages lie below cmd/a and cmd/b.                     *)
(*   SpecRetrace : two traces of one symbol over one call graph.           *)
(*   SpecDispatch: the kind filter of Analyze and the two definitions of   *)
(*                 DirectCallTracer.TraceToMain.                           *)
(*   SpecParse   : ParseDiff over the hunks of one file diff               *)
(*                 (internal/git/diff.go).                                 *)
(*   FairSpecAnalyze, FairSpecTrace, FairSpecImport add the scheduling of  *)
(*   the steps that can be taken.                                          *)
(*                                                                         *)
(* The tracer library golang.org/x/tools/gopls/pkg/ripplesapi is replaced  *)
(* by a local checkout in go.mod and its code is not part of the           *)
(* repository: the reference strategy, the import search, the boundary     *)
(* checks, the cache and the score filter follow the repository's          *)
(* documents, the function trace follows CallChainTracer.                  *)
(***************************************************************************)
EXTENDS Integers, Sequences, FiniteSets, TLC

VARIABLES
    changes,           \* Analyze: the changes argument, a sequence of ChangedSymbol
    apc,               \* Analyze: position of the calling goroutine
    supportedChanges,  \* Analyze: indices (into changes) that passed the kind filter
    wpc,               \* Analyze: position of the worker goroutine of each change
    wout,              \* Analyze: (paths, err) a worker got from tracer.TraceToMain
    traceCalls,        \* Analyze: number of TraceToMain invocations per change
    results,           \* Analyze: the buffered channel `results`
    closed,            \* Analyze: close(results) has run
    seenBinaries,      \* Analyze: the collector's seenBinaries map (its key set)
    affectedBinaries,  \* Analyze: the collector's affectedBinaries slice
    retBinaries,       \* Analyze: the returned []AffectedBinary
    retErr,            \* Analyze: the returned error
    produced,          \* history: binary names carried by successful trace results
    failures,          \* history: number of traces that returned an error
    dropped,           \* history: the collector skipped a path as a duplicate
    callers,           \* provider: callers[f] = the functions IncomingCalls reports for f
    tsym,              \* TraceToMain: the symbol argument
    tpc,               \* TraceToMain: position of the call
    stack,             \* traceIncomingCalls: the activation records, innermost first
    visited,           \* TraceToMain: the visited map (its key set)
    tseen,             \* TraceToMain: the seenBinaries map (its key set)
    tpaths,            \* TraceToMain: the paths slice
    terr,              \* TraceToMain: the returned error
    requests,          \* history: IncomingCalls requests per declaration position
    provFailed,        \* history: number of IncomingCalls requests that failed
    refs,              \* TraceReferencesToMain: the reference sites the provider reports
    rpc,               \* TraceReferencesToMain: position of the call
    pending,           \* TraceReferencesToMain: containing functions still to ascend
    ascents,           \* history: the functions a function trace was started from
    rpaths,            \* TraceReferencesToMain: the accumulated paths
    rerr,              \* TraceReferencesToMain: the returned error
    skipped,           \* history: number of function traces that returned an error
    imports,           \* provider: imports[p] = the packages p imports
    isym,              \* DirectCallTracer.TraceToMain: the symbol argument
    ipc,               \* DirectCallTracer.TraceToMain: position of the call
    mainsTodo,         \* FindMainPackagesImporting: entry packages still to test
    istack,            \* importsPackageRecursive: the activation records
    ivisited,          \* importsPackageRecursive: the visited set of one search
    ipaths,            \* DirectCallTracer.TraceToMain: the returned paths
    ierr,              \* DirectCallTracer.TraceToMain: the returned error
    persistent,        \* trace cache: the persistent tier (filecache), per cache key
    memory,            \* trace cache: the in-process tier (traceCache), per cache key
    cpc,               \* cached TraceToMain: position of the call
    csym,              \* cached TraceToMain: the function being traced
    cret,              \* cached TraceToMain: the returned (paths, err)
    cprov,             \* history: provider traces made by the current call
    chit,              \* history: the tiers that held the stored result at the call
    cdamaged,          \* history: the persistent entry was unusable at the call
    ccomputed,         \* history: what the provider trace of the current call gave
    stored,            \* history: the result last stored for each function
    tiers,             \* history: the tiers still holding that stored result
    cancelled,         \* the context given to NewLSPImpactAnalyzer is cancelled
    spc,               \* filterAmbiguousInterfaceCalls: position of the call
    sitem,             \* filterAmbiguousInterfaceCalls: the item being expanded
    scurrentPath,      \* filterAmbiguousInterfaceCalls: packages of the path so far
    sincoming,         \* filterAmbiguousInterfaceCalls: packages of the callers
    scores,            \* filterAmbiguousInterfaceCalls: the score of each caller
    sretained,         \* filterAmbiguousInterfaceCalls: the callers returned
    bdir,              \* boundary: the directory of the file of a caller
    bpath,             \* boundary: the package paths of the nodes traced so far
    bpc,               \* boundary: position in the classification
    bpkg,              \* boundary: extractPackageFromURI of the caller's file
    bshared,           \* boundary: isCommonPackage of the caller's package
    bservice,          \* boundary: extractServiceName of the caller's package
    bcross,            \* boundary: isCrossServiceCall of the caller and the path
    dsym,              \* dispatch: the changed symbol
    dimpl,             \* dispatch: the definition of DirectCallTracer.TraceToMain in use
    dpc,               \* dispatch: position (filter of Analyze, then the tracer)
    dout,              \* dispatch: the strategy chosen, or the error returned
    oround,            \* retrace: which of the two traces of the symbol is running
    oprev,             \* retrace: the binaries and the error of the first trace
    pname,             \* ParseDiff: the NewName of the file diff
    phunks,            \* ParseDiff: the hunks of the file diff
    ppc,               \* ParseDiff: position of the call
    phunk,             \* ParseDiff: index of the hunk being parsed
    pline,             \* ParseDiff: number of body lines the scanner has read
    pcur,              \* ParseDiff: currentNewLineNum
    padded,            \* ParseDiff: addedLines of the hunk being parsed
    pfd,               \* ParseDiff: the FileDiff under construction
    pres               \* ParseDiff: the returned []FileDiff

avars == <<changes, apc, supportedChanges, wpc, wout, traceCalls, results, closed,
           seenBinaries, affectedBinaries, retBinaries, retErr, produced, failures,
           dropped>>

tvars == <<callers, tsym, tpc, stack, visited, tseen, tpaths, terr, requests,
           provFailed>>

rvars == <<refs, rpc, pending, ascents, rpaths, rerr, skipped>>

ivars == <<imports, isym, ipc, mainsTodo, istack, ivisited, ipaths, ierr>>

cvars == <<persistent, memory, cpc, csym, cret, cprov, chit, cdamaged, ccomputed,
           stored, tiers>>

\* the groups added after the four machines above
kvars == <<cancelled>>

svars == <<spc, sitem, scurrentPath, sincoming, scores, sretained>>

bvars == <<bdir, bpath, bpc, bpkg, bshared, bservice, bcross>>

dvars == <<dsym, dimpl, dpc, dout>>

ovars == <<oround, oprev>>

pvars == <<pname, phunks, ppc, phunk, pline, pcur, padded, pfd, pres>>

\* the groups of the machines added last
zvars == <<bvars, dvars, ovars, pvars>>

xvars == <<cvars, kvars, svars, zvars>>

vars == <<avars, tvars, rvars, ivars, xvars>>

(***************************************************************************)
(* Generic helpers                                                         *)
(***************************************************************************)
Range(s) == {s[i] : i \in 1..Len(s)}

SeqsUpTo(S, n) == UNION {[1..k -> S] : k \in 0..n}

Perms(S) ==
    {s \in [1..Cardinality(S) -> S] :
        \A i, j \in 1..Cardinality(S) : i # j => s[i] # s[j]}

Last(s) == s[Len(s)]

RECURSIVE SelectIdx(_, _, _)
\* the indices i >= from of s whose element is in keep, in increasing order
SelectIdx(s, from, keep) ==
    IF from > Len(s) THEN <<>>
    ELSE IF s[from] \in keep THEN <<from>> \o SelectIdx(s, from + 1, keep)
         ELSE SelectIdx(s, from + 1, keep)

(***************************************************************************)
(* parser.SymbolKind and the kind filter                                   *)
(***************************************************************************)
SymbolKinds ==
    {"Package", "File", "Import", "Constant", "Variable", "Type", "TypeAlias",
     "Struct", "StructField", "Interface", "Function", "Init"}

isSupportedSymbolKindStructToo(kind) ==
    kind \in {"Function", "Constant", "Variable", "Init", "Import", "Struct"}

isSupportedSymbolKind(kind) ==
    kind \in {"Function", "Constant", "Variable", "Init", "Import"}

(***************************************************************************)
(* lsp.CallNode, lsp.CallPath and the trace results a worker can receive   *)
(***************************************************************************)
Nil == "nil"
TraceError == "trace error"

CallNode(fn, pkg) == [FunctionName |-> fn, PackagePath |-> pkg]

CallPath(bin, uri, path) == [BinaryName |-> bin, MainURI |-> uri, Path |-> path]

\* the binary names of the model, in lexicographic order
BinaryOrder == <<"service-a", "service-b">>

BinaryNames == Range(BinaryOrder)

NameRank(n) == CHOOSE i \in 1..Len(BinaryOrder) : BinaryOrder[i] = n

\* package paths and directories are kept as their sequences of "/"-separated
\* segments; the empty package path "" is the empty sequence
SamplePaths ==
    { CallPath("service-a", << <<"repo", "cmd", "service-a">>, "main.go" >>,
               << CallNode("main", <<"cmd", "service-a">>),
                  CallNode("ProcessRequest", <<"internal", "service-a">>) >>),
      CallPath("service-b", << <<"repo", "cmd", "service-b">>, "main.go" >>,
               << CallNode("main", <<"cmd", "service-b">>),
                  CallNode("Run", <<"internal", "service-b">>),
                  CallNode("LogMessage", <<>>) >>) }

MaxChanges == 2

\* the path lists a trace may return: none, one path, or two paths (possibly to
\* the same binary)
PathLists ==
    {<<>>} \cup {<<p>> : p \in SamplePaths}
           \cup {<<p, q>> : p \in SamplePaths, q \in SamplePaths}

\* what tracer.TraceToMain may hand to a worker: (paths, nil) or (nil, err)
TraceOutcomes ==
    {[paths |-> p, err |-> Nil] : p \in PathLists}
    \cup {[paths |-> <<>>, err |-> TraceError]}

NoOutcome == [paths |-> <<>>, err |-> "none"]

(***************************************************************************)
(* Analyze: formatting of one CallPath into an AffectedBinary              *)
(***************************************************************************)
\* fmt.Sprintf("%s.%s", pkg, fn) or fn alone, then the " (main)" / " (Changed)" tag
FormatNode(node, i, n) ==
    [pkg |-> node.PackagePath,
     dot |-> node.PackagePath # <<>>,
     fn  |-> node.FunctionName,
     tag |-> IF i = 1 THEN " (main)" ELSE IF i = n THEN " (Changed)" ELSE ""]

extractPkgPath(uri) == uri

MakeAffectedBinary(path) ==
    [Name      |-> path.BinaryName,
     PkgPath   |-> extractPkgPath(path.MainURI),
     TracePath |-> [i \in 1..Len(path.Path) |->
                        FormatNode(path.Path[i], i, Len(path.Path))]]

SeenNever(seen, name) == FALSE

\* `if seenBinaries[path.BinaryName] { continue }`
Seen(seen, name) == name \in seen

RECURSIVE CollectPaths(_, _, _, _)
\* the inner loop `for _, path := range res.paths` of the collector
CollectPaths(paths, seen, acc, drop) ==
    IF paths = <<>> THEN [seen |-> seen, acc |-> acc, drop |-> drop]
    ELSE LET p == Head(paths) IN
         IF Seen(seen, p.BinaryName)
         THEN CollectPaths(Tail(paths), seen, acc, TRUE)
         ELSE CollectPaths(Tail(paths), seen \cup {p.BinaryName},
                           Append(acc, MakeAffectedBinary(p)), drop)

CollectResultAbort(res, seen, acc, drop) ==
    IF res.err # Nil
    THEN [seen |-> {}, acc |-> <<>>, drop |-> drop]
    ELSE CollectPaths(res.paths, seen, acc, drop)

\* the body of `for res := range results`: a failed trace is logged and skipped
CollectResult(res, seen, acc, drop) ==
    IF res.err # Nil
    THEN [seen |-> seen, acc |-> acc, drop |-> drop]
    ELSE CollectPaths(res.paths, seen, acc, drop)

(***************************************************************************)
(* Analyze: the state machine                                              *)
(***************************************************************************)
Workers == 1..MaxChanges

IdleAnalyze ==
    /\ changes = <<>>
    /\ apc = "idle"
    /\ supportedChanges = <<>>
    /\ wpc = [i \in Workers |-> "none"]
    /\ wout = [i \in Workers |-> NoOutcome]
    /\ traceCalls = [i \in Workers |-> 0]
    /\ results = <<>>
    /\ closed = FALSE
    /\ seenBinaries = {}
    /\ affectedBinaries = <<>>
    /\ retBinaries = <<>>
    /\ retErr = "none"
    /\ produced = {}
    /\ failures = 0
    /\ dropped = FALSE

InitAnalyzeVars ==
    /\ changes \in SeqsUpTo({[Kind |-> k] : k \in SymbolKinds}, MaxChanges)
    /\ apc = "start"
    /\ supportedChanges = <<>>
    /\ wpc = [i \in Workers |-> "none"]
    /\ wout = [i \in Workers |-> NoOutcome]
    /\ traceCalls = [i \in Workers |-> 0]
    /\ results = <<>>
    /\ closed = FALSE
    /\ seenBinaries = {}
    /\ affectedBinaries = <<>>
    /\ retBinaries = <<>>
    /\ retErr = "none"
    /\ produced = {}
    /\ failures = 0
    /\ dropped = FALSE

SupportedIdx(chs) ==
    SelectIdx(chs, 1, {c \in Range(chs) : isSupportedSymbolKind(c.Kind)})

\* lines 37-91: filter the kinds, return (nil, nil) when nothing is left,
\* otherwise make the channel, start one goroutine per supported change and
\* the goroutine that closes the channel
AnalyzeStart ==
    /\ apc = "start"
    /\ LET sup == SupportedIdx(changes) IN
       /\ supportedChanges' = sup
       /\ IF Len(sup) = 0
          THEN /\ apc' = "done"
               /\ retErr' = Nil
               /\ UNCHANGED wpc
          ELSE /\ apc' = "collect"
               /\ wpc' = [i \in Workers |->
                             IF i \in Range(sup) THEN "spawned" ELSE wpc[i]]
               /\ UNCHANGED retErr
    /\ UNCHANGED <<changes, wout, traceCalls, results, closed, seenBinaries,
                   affectedBinaries, retBinaries, produced, failures, dropped>>
    /\ UNCHANGED <<tvars, rvars, ivars, xvars>>

\* line 82: paths, err := a.tracer.TraceToMain(symbol)
WorkerTrace(i) ==
    /\ wpc[i] = "spawned"
    /\ \E out \in TraceOutcomes :
          /\ wout' = [wout EXCEPT ![i] = out]
          /\ produced' = IF out.err = Nil
                         THEN produced \cup {p.BinaryName : p \in Range(out.paths)}
                         ELSE produced
          /\ failures' = IF out.err = Nil THEN failures ELSE failures + 1
    /\ traceCalls' = [traceCalls EXCEPT ![i] = @ + 1]
    /\ wpc' = [wpc EXCEPT ![i] = "traced"]
    /\ UNCHANGED <<changes, apc, supportedChanges, results, closed, seenBinaries,
                   affectedBinaries, retBinaries, retErr, dropped>>
    /\ UNCHANGED <<tvars, rvars, ivars, xvars>>

\* a worker that sends its result and stays ready to send it again
WorkerSendAgain(i) ==
    /\ wpc[i] = "traced"
    /\ ~closed
    /\ Len(results) < Len(supportedChanges)
    /\ results' = Append(results, wout[i])
    /\ UNCHANGED <<changes, apc, supportedChanges, wpc, wout, traceCalls, closed,
                   seenBinaries, affectedBinaries, retBinaries, retErr, produced,
                   failures, dropped>>
    /\ UNCHANGED <<tvars, rvars, ivars, xvars>>

\* line 83 and the deferred wg.Done(): the send on a channel whose buffer holds
\* len(supportedChanges) results
WorkerSend(i) ==
    /\ wpc[i] = "traced"
    /\ ~closed
    /\ Len(results) < Len(supportedChanges)
    /\ results' = Append(results, wout[i])
    /\ wout' = [wout EXCEPT ![i] = NoOutcome]
    /\ wpc' = [wpc EXCEPT ![i] = "done"]
    /\ UNCHANGED <<changes, apc, supportedChanges, traceCalls, closed,
                   seenBinaries, affectedBinaries, retBinaries, retErr, produced,
                   failures, dropped>>
    /\ UNCHANGED <<tvars, rvars, ivars, xvars>>

\* a closer that does not wait for the workers
CloseResultsEarly ==
    /\ apc = "collect"
    /\ ~closed
    /\ closed' = TRUE
    /\ UNCHANGED <<changes, apc, supportedChanges, wpc, wout, traceCalls, results,
                   seenBinaries, affectedBinaries, retBinaries, retErr, produced,
                   failures, dropped>>
    /\ UNCHANGED <<tvars, rvars, ivars, xvars>>

\* lines 88-91: wg.Wait(); close(results)
CloseResults ==
    /\ apc = "collect"
    /\ ~closed
    /\ \A i \in Range(supportedChanges) : wpc[i] = "done"
    /\ closed' = TRUE
    /\ UNCHANGED <<changes, apc, supportedChanges, wpc, wout, traceCalls, results,
                   seenBinaries, affectedBinaries, retBinaries, retErr, produced,
                   failures, dropped>>
    /\ UNCHANGED <<tvars, rvars, ivars, xvars>>

\* lines 97-134: one iteration of `for res := range results`
CollectorReceive ==
    /\ apc = "collect"
    /\ results # <<>>
    /\ LET c == CollectResult(Head(results), seenBinaries, affectedBinaries,
                              dropped) IN
       /\ seenBinaries' = c.seen
       /\ affectedBinaries' = c.acc
       /\ dropped' = c.drop
    /\ results' = Tail(results)
    /\ UNCHANGED <<changes, apc, supportedChanges, wpc, wout, traceCalls, closed,
                   retBinaries, retErr, produced, failures>>
    /\ UNCHANGED <<tvars, rvars, ivars, xvars>>

\* line 136: the range loop ends on the closed, drained channel
AnalyzeReturn ==
    /\ apc = "collect"
    /\ results = <<>>
    /\ closed
    /\ apc' = "done"
    /\ retBinaries' = affectedBinaries
    /\ retErr' = Nil
    /\ UNCHANGED <<changes, supportedChanges, wpc, wout, traceCalls, results,
                   closed, seenBinaries, affectedBinaries, produced, failures,
                   dropped>>
    /\ UNCHANGED <<tvars, rvars, ivars, xvars>>

NextAnalyze ==
    \/ AnalyzeStart
    \/ \E i \in Workers : WorkerTrace(i)
    \/ \E i \in Workers : WorkerSend(i)
    \/ CloseResults
    \/ CollectorReceive
    \/ AnalyzeReturn

(***************************************************************************)
(* The workspace of the call-chain tracer: the functions of the fixtures   *)
(* testdata/shared-package-test and testdata/constant-test and the callers *)
(* the provider reports                                                    *)
(***************************************************************************)
\* a workspace whose entry packages lie two levels below cmd: the main
\* functions of cmd/a/server and cmd/b/server and two functions of pkg/grace
NestedFuncs == {"mainSrvA", "mainSrvB", "Serve", "Listen"}

\* the functions of testdata/shared-package-test and testdata/constant-test
FixtureFuncs ==
    {"mainA", "mainB", "ProcA", "ProcB", "LogicA", "LogicB", "RunA", "RunB",
     "RunServer", "LogMessage", "Log", "LogWithLevel", "DoWithRetry", "mainServer"}

Funcs == FixtureFuncs \cup NestedFuncs

FileURI(dir, file) == [scheme |-> "file", dir |-> dir, file |-> file]

\* the CallHierarchyItem of each declaration: its name, the URI of its file
\* (directory as a sequence of segments) and the position of the name
Item(f) ==
    CASE f = "mainA" ->
           [Name |-> "main", Line |-> 8, Character |-> 5,
            URI |-> FileURI(<<"repo", "cmd", "service-a">>, "main.go")]
      [] f = "mainB" ->
           [Name |-> "main", Line |-> 8, Character |-> 5,
            URI |-> FileURI(<<"repo", "cmd", "service-b">>, "main.go")]
      [] f = "ProcA" ->
           [Name |-> "ProcessRequest", Line |-> 18, Character |-> 18,
            URI |-> FileURI(<<"repo", "internal", "service-a">>, "handler.go")]
      [] f = "ProcB" ->
           [Name |-> "ProcessRequest", Line |-> 18, Character |-> 18,
            URI |-> FileURI(<<"repo", "internal", "service-b">>, "handler.go")]
      [] f = "LogicA" ->
           [Name |-> "internalServiceLogic", Line |-> 46, Character |-> 17,
            URI |-> FileURI(<<"repo", "internal", "service-a">>, "handler.go")]
      [] f = "LogicB" ->
           [Name |-> "internalServiceLogic", Line |-> 46, Character |-> 17,
            URI |-> FileURI(<<"repo", "internal", "service-b">>, "handler.go")]
      [] f = "RunA" ->
           [Name |-> "Run", Line |-> 39, Character |-> 17,
            URI |-> FileURI(<<"repo", "internal", "service-a">>, "handler.go")]
      [] f = "RunB" ->
           [Name |-> "Run", Line |-> 39, Character |-> 17,
            URI |-> FileURI(<<"repo", "internal", "service-b">>, "handler.go")]
      [] f = "RunServer" ->
           [Name |-> "RunServer", Line |-> 45, Character |-> 5,
            URI |-> FileURI(<<"repo", "pkg", "common">>, "logger.go")]
      [] f = "Log" ->
           [Name |-> "Log", Line |-> 16, Character |-> 17,
            URI |-> FileURI(<<"repo", "pkg", "common">>, "logger.go")]
      [] f = "LogWithLevel" ->
           [Name |-> "LogWithLevel", Line |-> 22, Character |-> 17,
            URI |-> FileURI(<<"repo", "pkg", "common">>, "logger.go")]
      [] f = "DoWithRetry" ->
           [Name |-> "DoWithRetry", Line |-> 6, Character |-> 5,
            URI |-> FileURI(<<"repo", "internal", "service">>, "retry.go")]
      [] f = "mainServer" ->
           [Name |-> "main", Line |-> 8, Character |-> 5,
            URI |-> FileURI(<<"repo", "cmd", "server">>, "main.go")]
      [] f = "mainSrvA" ->
           [Name |-> "main", Line |-> 8, Character |-> 5,
            URI |-> FileURI(<<"repo", "cmd", "a", "server">>, "main.go")]
      [] f = "mainSrvB" ->
           [Name |-> "main", Line |-> 8, Character |-> 5,
            URI |-> FileURI(<<"repo", "cmd", "b", "server">>, "main.go")]
      [] f = "Serve" ->
           [Name |-> "Serve", Line |-> 12, Character |-> 5,
            URI |-> FileURI(<<"repo", "pkg", "grace">>, "serve.go")]
      [] f = "Listen" ->
           [Name |-> "Listen", Line |-> 30, Character |-> 5,
            URI |-> FileURI(<<"repo", "pkg", "grace">>, "serve.go")]
      [] OTHER ->
           [Name |-> "LogMessage", Line |-> 29, Character |-> 5,
            URI |-> FileURI(<<"repo", "pkg", "common">>, "logger.go")]

\* the call sites of the fixture: main calls handler.ProcessRequest and
\* common.RunServer; Run calls internalServiceLogic, which calls ProcessRequest,
\* which calls common.LogMessage; RunServer calls r.Run() through the Runner
\* interface, so the provider reports it as a caller of both implementations;
\* Logger.Log is called by Logger.LogWithLevel, which nothing calls; in
\* constant-test the main of cmd/server calls service.DoWithRetry
BaseCallers ==
    [f \in Funcs |->
        CASE f = "LogMessage" -> {"ProcA", "ProcB"}
          [] f = "ProcA"      -> {"mainA", "LogicA"}
          [] f = "ProcB"      -> {"mainB", "LogicB"}
          [] f = "LogicA"     -> {"RunA"}
          [] f = "LogicB"     -> {"RunB"}
          [] f = "RunA"       -> {"RunServer"}
          [] f = "RunB"       -> {"RunServer"}
          [] f = "RunServer"  -> {"mainA", "mainB"}
          [] f = "Log"        -> {"LogWithLevel"}
          [] f = "DoWithRetry" -> {"mainServer"}
          [] f = "Serve"      -> {"mainSrvA", "mainSrvB"}
          [] f = "Listen"     -> {"Serve", "mainSrvB"}
          [] OTHER            -> {}]

\* further call sites a workspace may contain, as <<callee, caller>>: direct and
\* mutual recursion, a call inside the shared package, a call across services
ExtraEdges ==
    { <<"ProcA", "ProcA">>, <<"RunA", "ProcA">>, <<"RunServer", "LogMessage">>,
      <<"ProcA", "ProcB">> }

MaxExtraEdges == 2

WithEdges(g, E) == [f \in Funcs |-> g[f] \cup {e[2] : e \in {x \in E : x[1] = f}}]

CallGraphs ==
    {WithEdges(BaseCallers, E) :
        E \in {X \in SUBSET ExtraEdges : Cardinality(X) <= MaxExtraEdges}}

\* further call sites of the workspace with nested entry packages
NestedEdges == {<<"Listen", "Listen">>, <<"Serve", "Listen">>}

NestedGraphs == {WithEdges(BaseCallers, E) : E \in SUBSET NestedEdges}

MaxFailures == 1

(***************************************************************************)
(* Call-chain tracer: the pure functions                                   *)
(***************************************************************************)
StandardDirs == {"internal", "cmd", "pkg", "api"}

\* the package path is the directory from its first standard segment on,
\* otherwise the base name of the directory
extractPackageFromURI(uri) ==
    IF uri.scheme # "file" THEN <<>>
    ELSE LET dir == uri.dir
             hit == {i \in 1..Len(dir) : dir[i] \in StandardDirs}
         IN IF hit # {}
            THEN SubSeq(dir, CHOOSE i \in hit : \A j \in hit : i <= j, Len(dir))
            ELSE <<Last(dir)>>

extractServiceNameRoot(pkgPath) ==
    IF Len(pkgPath) >= 2 /\ pkgPath[1] \in {"cmd", "internal"}
    THEN pkgPath[1]
    ELSE ""

\* "cmd/<service>..." and "internal/<service>..." name a service, nothing else does
extractServiceName(pkgPath) ==
    IF Len(pkgPath) >= 2 /\ pkgPath[1] \in {"cmd", "internal"}
    THEN pkgPath[2]
    ELSE ""

isCommonPackage(pkgPath) ==
    Len(pkgPath) >= 2 /\ pkgPath[1] \in {"pkg", "api", "common", "shared", "lib"}

isCrossServiceCallNever(callerPkg, currentPath) == FALSE

\* some node of the path belongs to a named service other than the caller's
isCrossServiceCall(callerPkg, currentPath) ==
    /\ Len(currentPath) # 0
    /\ LET callerService == extractServiceName(callerPkg) IN
       \E i \in 1..Len(currentPath) :
          LET nodeService == extractServiceName(currentPath[i].PackagePath) IN
          /\ callerService # ""
          /\ nodeService # ""
          /\ callerService # nodeService
          /\ ~isCommonPackage(currentPath[i].PackagePath)

isMainFunctionNever(item) == FALSE

isMainFunctionByFile(item) == item.URI.scheme = "file"

\* the function is named main and its directory contains "/cmd/" or is named main
isMainFunction(item) ==
    /\ item.Name = "main"
    /\ item.URI.scheme = "file"
    /\ \/ \E i \in 1..(Len(item.URI.dir) - 1) : item.URI.dir[i] = "cmd"
       \/ Last(item.URI.dir) = "main"

\* the base name of what follows "/cmd/" in the directory, or of the directory
GetBinaryName(item) ==
    IF item.URI.scheme # "file" THEN "unknown"
    ELSE LET dir == item.URI.dir
             cmd == {i \in 1..(Len(dir) - 1) : dir[i] = "cmd"}
         IN IF Cardinality(cmd) = 1
            THEN Last(SubSeq(dir, (CHOOSE i \in cmd : TRUE) + 1, Len(dir)))
            ELSE Last(dir)

\* fmt.Sprintf("%s:%d:%d", item.URI, line, character)
Key(item) == <<item.URI, item.Line, item.Character>>

IsVisitedNever(vis, key) == FALSE

\* `if visited[key] { return }`
IsVisited(vis, key) == key \in vis

NodeOf(item) ==
    CallNode(item.Name, extractPackageFromURI(item.URI))

PrependAppended(node, currentPath) == currentPath \o <<node>>

\* newPath := append([]CallNode{callerNode}, currentPath...)
Prepend(node, currentPath) == <<node>> \o currentPath

\* a trace that starts from the empty path
InitialPathEmpty(item) == <<>>

\* lines 115-119: []CallNode{initialNode}
InitialPath(item) == <<NodeOf(item)>>

Frame(f, path) == [fn |-> f, path |-> path, todo |-> <<>>, phase |-> "enter"]

Top == Head(stack)

(***************************************************************************)
(* Call-chain tracer: TraceToMain and traceIncomingCalls                   *)
(***************************************************************************)
IdleTrace ==
    /\ callers = BaseCallers
    /\ tsym = [Kind |-> "Function", Decl |-> "LogMessage"]
    /\ tpc = "idle"
    /\ stack = <<>>
    /\ visited = {}
    /\ tseen = {}
    /\ tpaths = <<>>
    /\ terr = "none"
    /\ requests = [f \in Funcs |-> 0]
    /\ provFailed = 0

\* lines 58-61: a symbol that is not a function is rejected
TraceToMainReject ==
    /\ tpc = "start"
    /\ tsym.Kind # "Function"
    /\ tpc' = "done"
    /\ terr' = "not a function"
    /\ UNCHANGED <<callers, tsym, stack, visited, tseen, tpaths, requests, provFailed>>
    /\ UNCHANGED <<avars, rvars, ivars, xvars>>

\* lines 66-107: the file cannot be read, the document cannot be opened, the
\* call hierarchy cannot be prepared or has no item for the position
TraceToMainFail ==
    /\ tpc = "start"
    /\ tsym.Kind = "Function"
    /\ tpc' = "done"
    /\ terr' \in {"failed to read file", "failed to open document",
                  "failed to prepare call hierarchy", "no call hierarchy items"}
    /\ UNCHANGED <<callers, tsym, stack, visited, tseen, tpaths, requests, provFailed>>
    /\ UNCHANGED <<avars, rvars, ivars, xvars>>

\* lines 110-121: fresh visited and seenBinaries, the first call of
\* traceIncomingCalls with the path holding the changed function alone
TraceToMainStart ==
    /\ tpc = "start"
    /\ tsym.Kind = "Function"
    /\ tpc' = "run"
    /\ visited' = {}
    /\ tseen' = {}
    /\ tpaths' = <<>>
    /\ stack' = <<Frame(tsym.Decl, InitialPath(Item(tsym.Decl)))>>
    /\ UNCHANGED <<callers, tsym, terr, requests, provFailed>>
    /\ UNCHANGED <<avars, rvars, ivars, xvars>>

\* lines 153-155: the position was visited before
TraceEnterVisited ==
    /\ tpc = "run" /\ stack # <<>> /\ Top.phase = "enter"
    /\ IsVisited(visited, Key(Item(Top.fn)))
    /\ stack' = Tail(stack)
    /\ UNCHANGED <<callers, tsym, tpc, visited, tseen, tpaths, terr, requests,
                   provFailed>>
    /\ UNCHANGED <<avars, rvars, ivars, xvars>>

\* lines 156-178: a main function ends the ascent; its binary is recorded once
TraceEnterMain ==
    /\ tpc = "run" /\ stack # <<>> /\ Top.phase = "enter"
    /\ ~IsVisited(visited, Key(Item(Top.fn)))
    /\ isMainFunction(Item(Top.fn))
    /\ visited' = visited \cup {Key(Item(Top.fn))}
    /\ LET binaryName == GetBinaryName(Item(Top.fn)) IN
       IF binaryName \in tseen
       THEN UNCHANGED <<tseen, tpaths>>
       ELSE /\ tseen' = tseen \cup {binaryName}
            /\ tpaths' = Append(tpaths,
                                CallPath(binaryName, Item(Top.fn).URI, Top.path))
    /\ stack' = Tail(stack)
    /\ UNCHANGED <<callers, tsym, tpc, terr, requests, provFailed>>
    /\ UNCHANGED <<avars, rvars, ivars, xvars>>

\* lines 181-185: the IncomingCalls request fails; a warning, and the branch ends
TraceExpandFail ==
    /\ tpc = "run" /\ stack # <<>> /\ Top.phase = "enter"
    /\ ~IsVisited(visited, Key(Item(Top.fn)))
    /\ ~isMainFunction(Item(Top.fn))
    /\ provFailed < MaxFailures
    /\ visited' = visited \cup {Key(Item(Top.fn))}
    /\ requests' = [requests EXCEPT ![Top.fn] = @ + 1]
    /\ provFailed' = provFailed + 1
    /\ stack' = Tail(stack)
    /\ UNCHANGED <<callers, tsym, tpc, tseen, tpaths, terr>>
    /\ UNCHANGED <<avars, rvars, ivars, xvars>>

\* lines 181-190: the IncomingCalls request answers with the callers in some
\* order; with no caller the branch is a dead end
TraceExpand ==
    /\ tpc = "run" /\ stack # <<>> /\ Top.phase = "enter"
    /\ ~IsVisited(visited, Key(Item(Top.fn)))
    /\ ~isMainFunction(Item(Top.fn))
    /\ visited' = visited \cup {Key(Item(Top.fn))}
    /\ requests' = [requests EXCEPT ![Top.fn] = @ + 1]
    /\ \E incomingCalls \in Perms(callers[Top.fn]) :
          stack' = IF incomingCalls = <<>>
                   THEN Tail(stack)
                   ELSE <<[Top EXCEPT !.todo = incomingCalls, !.phase = "loop"]>>
                        \o Tail(stack)
    /\ UNCHANGED <<callers, tsym, tpc, tseen, tpaths, terr, provFailed>>
    /\ UNCHANGED <<avars, rvars, ivars, xvars>>

\* lines 193-209: one iteration of `for _, call := range incomingCalls`
TraceCaller ==
    /\ tpc = "run" /\ stack # <<>> /\ Top.phase = "loop" /\ Top.todo # <<>>
    /\ LET from == Head(Top.todo)
           callerNode == NodeOf(Item(from))
           rest == <<[Top EXCEPT !.todo = Tail(Top.todo)]>> \o Tail(stack)
       IN stack' = IF isCrossServiceCall(callerNode.PackagePath, Top.path)
                   THEN rest
                   ELSE <<Frame(from, Prepend(callerNode, Top.path))>> \o rest
    /\ UNCHANGED <<callers, tsym, tpc, visited, tseen, tpaths, terr, requests,
                   provFailed>>
    /\ UNCHANGED <<avars, rvars, ivars, xvars>>

\* line 210: the loop over the callers is over
TraceLoopEnd ==
    /\ tpc = "run" /\ stack # <<>> /\ Top.phase = "loop" /\ Top.todo = <<>>
    /\ stack' = Tail(stack)
    /\ UNCHANGED <<callers, tsym, tpc, visited, tseen, tpaths, terr, requests,
                   provFailed>>
    /\ UNCHANGED <<avars, rvars, ivars, xvars>>

\* line 123: return paths, nil
TraceToMainReturn ==
    /\ tpc = "run" /\ stack = <<>>
    /\ tpc' = "done"
    /\ terr' = Nil
    /\ UNCHANGED <<callers, tsym, stack, visited, tseen, tpaths, requests, provFailed>>
    /\ UNCHANGED <<avars, rvars, ivars, xvars>>

TraceRun ==
    \/ TraceToMainFail
    \/ TraceToMainStart
    \/ TraceEnterVisited
    \/ TraceEnterMain
    \/ TraceExpandFail
    \/ TraceExpand
    \/ TraceCaller
    \/ TraceLoopEnd
    \/ TraceToMainReturn

NextTrace ==
    \/ TraceToMainReject
    \/ TraceRun

(***************************************************************************)
(* Reference tracer: TraceReferencesToMain, for constants and variables.   *)
(* Every reference site is resolved to the function containing it, and one *)
(* function trace is started from each distinct containing function.       *)
(***************************************************************************)
\* the function containing a reference site; "" for a site outside any function
RefSites == {"", "ProcA", "LogMessage"}

MaxRefs == 3

RECURSIVE DistinctFunctions(_, _)
\* the containing functions of the sites, each once, in order of first occurrence
DistinctFunctions(sites, seen) ==
    IF sites = <<>> THEN <<>>
    ELSE IF Head(sites) = "" \/ Head(sites) \in seen
         THEN DistinctFunctions(Tail(sites), seen)
         ELSE <<Head(sites)>>
              \o DistinctFunctions(Tail(sites), seen \cup {Head(sites)})

IdleRefs ==
    /\ refs = <<>>
    /\ rpc = "idle"
    /\ pending = <<>>
    /\ ascents = <<>>
    /\ rpaths = <<>>
    /\ rerr = "none"
    /\ skipped = 0

\* the references request fails
RefsFail ==
    /\ rpc = "start"
    /\ rpc' = "done"
    /\ rerr' = "failed to find references"
    /\ UNCHANGED <<refs, pending, ascents, rpaths, skipped>>
    /\ UNCHANGED <<avars, tvars, ivars, xvars>>

\* the references are found and grouped by containing function
RefsStart ==
    /\ rpc = "start"
    /\ rpc' = "next"
    /\ pending' = DistinctFunctions(refs, {})
    /\ UNCHANGED <<refs, ascents, rpaths, rerr, skipped>>
    /\ UNCHANGED <<avars, tvars, ivars, xvars>>

\* a function trace is started from the next containing function
RefsAscend ==
    /\ rpc = "next"
    /\ pending # <<>>
    /\ tsym' = [Kind |-> "Function", Decl |-> Head(pending)]
    /\ tpc' = "start"
    /\ ascents' = Append(ascents, Head(pending))
    /\ pending' = Tail(pending)
    /\ rpc' = "wait"
    /\ UNCHANGED <<refs, rpaths, rerr, skipped>>
    /\ UNCHANGED <<callers, stack, visited, tseen, tpaths, terr, requests, provFailed>>
    /\ UNCHANGED <<avars, ivars, xvars>>

\* the paths of the finished function trace join the result; a function trace
\* that returned an error contributes nothing
RefsCollect ==
    /\ rpc = "wait"
    /\ tpc = "done"
    /\ rpaths' = IF terr = Nil THEN rpaths \o tpaths ELSE rpaths
    /\ skipped' = IF terr = Nil THEN skipped ELSE skipped + 1
    /\ rpc' = "next"
    /\ tpc' = "idle"
    /\ UNCHANGED <<refs, pending, ascents, rerr>>
    /\ UNCHANGED <<callers, tsym, stack, visited, tseen, tpaths, terr, requests,
                   provFailed>>
    /\ UNCHANGED <<avars, ivars, xvars>>

RefsReturn ==
    /\ rpc = "next"
    /\ pending = <<>>
    /\ rpc' = "done"
    /\ rerr' = Nil
    /\ UNCHANGED <<refs, pending, ascents, rpaths, skipped>>
    /\ UNCHANGED <<avars, tvars, ivars, xvars>>

NextRefs ==
    \/ RefsFail
    \/ RefsStart
    \/ RefsAscend
    \/ RefsCollect
    \/ RefsReturn
    \/ TraceRun

(***************************************************************************)
(* DirectCallTracer.TraceToMain for Init and Import symbols, and the       *)
(* search of the entry packages importing a package                        *)
(***************************************************************************)
ApiServer == <<"cmd", "api-server">>
Worker == <<"cmd", "worker">>
Logger == <<"internal", "logger">>
Db == <<"internal", "db">>

Pkgs == {ApiServer, Worker, Logger, Db}

\* the package clause of each package
PkgName(p) == IF p[1] = "cmd" THEN "main" ELSE Last(p)

ImportEdges == {e \in Pkgs \X Pkgs : e[1] # e[2]}

MaxImportEdges == 3

ImportGraphs ==
    {[p \in Pkgs |-> {e[2] : e \in {x \in E : x[1] = p}}] :
        E \in {X \in SUBSET ImportEdges : Cardinality(X) <= MaxImportEdges}}

NoExtra == [Alias |-> "none", Path |-> <<>>]

ImportExtra(alias, path) == [Alias |-> alias, Path |-> path]

\* func (i ImportExtra) IsBlankImport() bool
IsBlankImport(i) == i.Alias = "_"

Symbol(name, kind, pkg, extra) ==
    [Name |-> name, Kind |-> kind, PackagePath |-> pkg, Extra |-> extra]

InitOrImportSymbols ==
    {Symbol("init", "Init", p, NoExtra) : p \in Pkgs}
    \cup {Symbol(a, "Import", p, ImportExtra(a, q)) :
             a \in {"_", "db", ""}, p \in {ApiServer, Logger}, q \in {Logger, Db}}
    \cup {Symbol("_", "Import", p, NoExtra) : p \in {ApiServer, Logger}}
    \cup {Symbol("Config", "Struct", Db, NoExtra)}

InitTargetName(symbol) == <<symbol.Name>>

\* case SymbolKindInit: FindMainPackagesImporting(symbol.PackagePath)
InitTarget(symbol) == symbol.PackagePath

ImportTargetImporter(symbol) == symbol.PackagePath

\* case SymbolKindImport, blank: FindMainPackagesImporting(importExtra.Path)
ImportTarget(symbol) == symbol.Extra.Path

\* the switch on symbol.Kind: the strategy, its target package, or the error
Dispatch(symbol) ==
    CASE symbol.Kind = "Function" ->
           [strategy |-> "calls", target |-> <<>>, err |-> Nil]
      [] symbol.Kind \in {"Constant", "Variable"} ->
           [strategy |-> "references", target |-> <<>>, err |-> Nil]
      [] symbol.Kind = "Init" ->
           [strategy |-> "imports", target |-> InitTarget(symbol), err |-> Nil]
      [] symbol.Kind = "Import" ->
           IF symbol.Extra # NoExtra
           THEN IF IsBlankImport(symbol.Extra)
                THEN [strategy |-> "imports", target |-> ImportTarget(symbol),
                      err |-> Nil]
                ELSE [strategy |-> "none", target |-> <<>>,
                      err |-> "only blank imports (_ import) are supported for tracing"]
           ELSE [strategy |-> "none", target |-> <<>>,
                 err |-> "import symbol missing ImportExtra information"]
      [] OTHER ->
           [strategy |-> "none", target |-> <<>>,
            err |-> "symbol kind not yet supported for tracing"]

\* the CallPath reported for an entry package: the entry and the target package
MainPackagePath(m, target) ==
    CallPath(Last(m), m, <<CallNode("main", m), CallNode("init", target)>>)

IFrame(p) == [pkg |-> p, todo |-> <<>>, phase |-> "enter"]

ITop == Head(istack)

SearchTarget == Dispatch(isym).target

IdleImport ==
    /\ imports = [p \in Pkgs |-> {}]
    /\ isym = Symbol("init", "Init", Logger, NoExtra)
    /\ ipc = "idle"
    /\ mainsTodo = <<>>
    /\ istack = <<>>
    /\ ivisited = {}
    /\ ipaths = <<>>
    /\ ierr = "none"

\* the symbol has no import strategy: an error and no paths
DirectTraceToMainError ==
    /\ ipc = "start"
    /\ Dispatch(isym).err # Nil
    /\ ipc' = "done"
    /\ ierr' = Dispatch(isym).err
    /\ ipaths' = <<>>
    /\ UNCHANGED <<imports, isym, mainsTodo, istack, ivisited>>
    /\ UNCHANGED <<avars, tvars, rvars, xvars>>

\* FindMainPackagesImporting: the entry packages of the workspace graph, in the
\* order the graph yields them
FindMainPackagesImporting ==
    /\ ipc = "start"
    /\ Dispatch(isym).strategy = "imports"
    /\ ipc' = "search"
    /\ ipaths' = <<>>
    /\ mainsTodo' \in Perms({p \in Pkgs : PkgName(p) = "main"})
    /\ UNCHANGED <<imports, isym, istack, ivisited, ierr>>
    /\ UNCHANGED <<avars, tvars, rvars, xvars>>

\* importsPackage: a search from the next entry package with a fresh visited set
ImportsPackage ==
    /\ ipc = "search" /\ istack = <<>> /\ mainsTodo # <<>>
    /\ ivisited' = {}
    /\ istack' = <<IFrame(Head(mainsTodo))>>
    /\ UNCHANGED <<imports, isym, ipc, mainsTodo, ipaths, ierr>>
    /\ UNCHANGED <<avars, tvars, rvars, xvars>>

\* importsPackageRecursive on a package visited before: false
ImportsEnterVisited ==
    /\ ipc = "search" /\ istack # <<>> /\ ITop.phase = "enter"
    /\ ITop.pkg \in ivisited
    /\ istack' = Tail(istack)
    /\ UNCHANGED <<imports, isym, ipc, mainsTodo, ivisited, ipaths, ierr>>
    /\ UNCHANGED <<avars, tvars, rvars, xvars>>

\* importsPackageRecursive marks the package and walks its imports
ImportsEnter ==
    /\ ipc = "search" /\ istack # <<>> /\ ITop.phase = "enter"
    /\ ITop.pkg \notin ivisited
    /\ ivisited' = ivisited \cup {ITop.pkg}
    /\ \E deps \in Perms(imports[ITop.pkg]) :
          istack' = <<[ITop EXCEPT !.todo = deps, !.phase = "loop"]>> \o Tail(istack)
    /\ UNCHANGED <<imports, isym, ipc, mainsTodo, ipaths, ierr>>
    /\ UNCHANGED <<avars, tvars, rvars, xvars>>

\* an import is the target: true all the way up, the entry package is reported
ImportsDepHit ==
    /\ ipc = "search" /\ istack # <<>> /\ ITop.phase = "loop" /\ ITop.todo # <<>>
    /\ Head(ITop.todo) = SearchTarget
    /\ istack' = <<>>
    /\ ipaths' = Append(ipaths, MainPackagePath(Head(mainsTodo), SearchTarget))
    /\ mainsTodo' = Tail(mainsTodo)
    /\ UNCHANGED <<imports, isym, ipc, ivisited, ierr>>
    /\ UNCHANGED <<avars, tvars, rvars, xvars>>

\* an import is not the target: the search descends into it
ImportsDepDescend ==
    /\ ipc = "search" /\ istack # <<>> /\ ITop.phase = "loop" /\ ITop.todo # <<>>
    /\ Head(ITop.todo) # SearchTarget
    /\ istack' = <<IFrame(Head(ITop.todo)), [ITop EXCEPT !.todo = Tail(ITop.todo)]>>
                 \o Tail(istack)
    /\ UNCHANGED <<imports, isym, ipc, mainsTodo, ivisited, ipaths, ierr>>
    /\ UNCHANGED <<avars, tvars, rvars, xvars>>

\* no import led to the target: false; at the entry package the search is over
ImportsLoopEnd ==
    /\ ipc = "search" /\ istack # <<>> /\ ITop.phase = "loop" /\ ITop.todo = <<>>
    /\ istack' = Tail(istack)
    /\ mainsTodo' = IF Len(istack) = 1 THEN Tail(mainsTodo) ELSE mainsTodo
    /\ UNCHANGED <<imports, isym, ipc, ivisited, ipaths, ierr>>
    /\ UNCHANGED <<avars, tvars, rvars, xvars>>

\* lines 396-422: the paths are converted and returned with a nil error
DirectTraceToMainReturn ==
    /\ ipc = "search" /\ istack = <<>> /\ mainsTodo = <<>>
    /\ ipc' = "done"
    /\ ierr' = Nil
    /\ UNCHANGED <<imports, isym, mainsTodo, istack, ivisited, ipaths>>
    /\ UNCHANGED <<avars, tvars, rvars, xvars>>

NextImport ==
    \/ DirectTraceToMainError
    \/ FindMainPackagesImporting
    \/ ImportsPackage
    \/ ImportsEnterVisited
    \/ ImportsEnter
    \/ ImportsDepHit
    \/ ImportsDepDescend
    \/ ImportsLoopEnd
    \/ DirectTraceToMainReturn

(***************************************************************************)
(* DirectTracer.traceIncomingCalls of the tracer library, after the        *)
(* repository's documents: the traversal of CallChainTracer with full      *)
(* import paths on the nodes and, before a caller is recursed into, the    *)
(* checks "Case 1" and "Case 2" next to isCrossServiceCall.  The library   *)
(* is not in the repository.                                               *)
(***************************************************************************)
\* the module of the fixtures (go.mod of testdata/shared-package-test)
ModulePath == <<"example.com", "shared-package-test">>

\* the import path of the package that declares an item
extractPackageFromItem(item) == ModulePath \o Tail(item.URI.dir)

\* strings.Contains(pkgPath, "/" + dir + "/")
ContainsDir(pkgPath, dir) == \E i \in 2..(Len(pkgPath) - 1) : pkgPath[i] = dir

\* isCommonPackage on full import paths: a shared root that does not belong
\* to a service's own tree
isCommonPackageFull(pkgPath) ==
    /\ \E dir \in {"pkg", "api", "common", "shared", "lib"} : ContainsDir(pkgPath, dir)
    /\ ~ContainsDir(pkgPath, "internal")
    /\ ~ContainsDir(pkgPath, "cmd")

\* extractServiceName on full import paths: the segment after /cmd/ or /internal/
extractServiceNameFull(pkgPath) ==
    LET hit == {i \in 2..(Len(pkgPath) - 1) : pkgPath[i] \in {"cmd", "internal"}}
    IN  IF hit = {} THEN ""
        ELSE pkgPath[(CHOOSE i \in hit : \A j \in hit : i <= j) + 1]

\* "Case 3": a node of the path belongs to another named service
isCrossServiceCallFull(callerPkg, currentPath) ==
    LET callerService == extractServiceNameFull(callerPkg) IN
    \E i \in 1..Len(currentPath) :
       LET nodeService == extractServiceNameFull(currentPath[i].PackagePath) IN
       /\ callerService # ""
       /\ nodeService # ""
       /\ callerService # nodeService

DirectNodeOf(item) == CallNode(item.Name, extractPackageFromItem(item))

\* startedInCommonPkg := isCommonPackage(initialNode.PackagePath)
startedInCommonPkg == isCommonPackageFull(extractPackageFromItem(Item(tsym.Decl)))

\* a Case 1 that never stops
InternalToCommonNever(callerIsCommon, started) == FALSE

\* Case 1: started from internal/ and reached a common package
InternalToCommon(callerIsCommon, started) == callerIsCommon /\ ~started

\* a path scan that never finds an internal package
hasInternalNever(currentPath) == FALSE

\* the scan of Case 2: some node of the path lies under /internal/
hasInternal(currentPath) ==
    \E i \in 1..Len(currentPath) : ContainsDir(currentPath[i].PackagePath, "internal")

\* Case 2: started from common, went through internal, now back to common
CommonInternalCommon(callerIsCommon, started, currentPath) ==
    callerIsCommon /\ started /\ hasInternal(currentPath)

\* TraceToMain: the traversal starts from the path [changed symbol]
DirectToMainStart ==
    /\ tpc = "start"
    /\ tsym.Kind = "Function"
    /\ tpc' = "run"
    /\ visited' = {}
    /\ tseen' = {}
    /\ tpaths' = <<>>
    /\ stack' = <<Frame(tsym.Decl, <<DirectNodeOf(Item(tsym.Decl))>>)>>
    /\ UNCHANGED <<callers, tsym, terr, requests, provFailed>>
    /\ UNCHANGED <<avars, rvars, ivars, xvars>>

\* one iteration of the loop over the callers: Case 1, Case 2 and
\* isCrossServiceCall skip the caller, any other caller is recursed into
DirectCaller ==
    /\ tpc = "run" /\ stack # <<>> /\ Top.phase = "loop" /\ Top.todo # <<>>
    /\ LET from == Head(Top.todo)
           callerNode == DirectNodeOf(Item(from))
           callerIsCommon == isCommonPackageFull(callerNode.PackagePath)
           rest == <<[Top EXCEPT !.todo = Tail(Top.todo)]>> \o Tail(stack)
       IN stack' =
            IF \/ InternalToCommon(callerIsCommon, startedInCommonPkg)
               \/ CommonInternalCommon(callerIsCommon, startedInCommonPkg, Top.path)
               \/ isCrossServiceCallFull(callerNode.PackagePath, Top.path)
            THEN rest
            ELSE <<Frame(from, Prepend(callerNode, Top.path))>> \o rest
    /\ UNCHANGED <<callers, tsym, tpc, visited, tseen, tpaths, terr, requests,
                   provFailed>>
    /\ UNCHANGED <<avars, rvars, ivars, xvars>>

NextDirect ==
    \/ TraceToMainReject
    \/ TraceToMainFail
    \/ DirectToMainStart
    \/ TraceEnterVisited
    \/ TraceEnterMain
    \/ TraceExpandFail
    \/ TraceExpand
    \/ DirectCaller
    \/ TraceLoopEnd
    \/ TraceToMainReturn

(***************************************************************************)
(* The two-tier trace cache of DirectTracer.TraceToMain, after             *)
(* PERSISTENT_CACHE.md: a persistent tier (gopls filecache, JSON under the *)
(* SHA-256 of the cache key) in front of an in-process tier (sync.Map), in *)
(* front of the full trace.  The tracer library is not in the repository.  *)
(***************************************************************************)
\* the functions traced through the cache; they share a file
CacheSymbols == {"LogMessage", "RunServer"}

\* a key that forgets the position and the name
CacheKeyFileOnly(f) == <<Item(f).URI>>

\* fmt.Sprintf("%s:%d:%d:%s", pos.Filename, pos.Line, pos.Column, functionName)
CacheKey(f) == <<Item(f).URI, Item(f).Line, Item(f).Character, Item(f).Name>>

\* sha256.Sum256([]byte(cacheKey)), taken as collision free
PersistentCacheKey(key) == [sha256 |-> key]

CacheKeys == {CacheKey(f) : f \in CacheSymbols}

\* the results a full trace may give
CacheValues == {<<>>} \cup {<<p>> : p \in SamplePaths}

CacheError == "cache error"

\* json.Marshal of a []CallPath: null for the empty result, otherwise an array
\* of objects with one member per exported field
MarshalNode(n) == [FunctionName |-> n.FunctionName, PackagePath |-> n.PackagePath]

MarshalPath(p) ==
    [BinaryName |-> p.BinaryName,
     MainURI    |-> p.MainURI,
     Path       |-> [json  |-> "array",
                     items |-> [j \in 1..Len(p.Path) |-> MarshalNode(p.Path[j])]]]

Marshal(paths) ==
    IF paths = <<>>
    THEN [json |-> "null", items |-> <<>>]
    ELSE [json |-> "array", items |-> [i \in 1..Len(paths) |-> MarshalPath(paths[i])]]

\* bytes that are no JSON document
Garbage == [json |-> "garbage", items |-> <<>>]

UnmarshalPath(o) ==
    CallPath(o.BinaryName, o.MainURI,
             [j \in 1..Len(o.Path.items) |->
                 CallNode(o.Path.items[j].FunctionName, o.Path.items[j].PackagePath)])

\* an Unmarshal whose error is lost: bad bytes give the empty result
UnmarshalIgnoreError(data) ==
    IF data.json = "array"
    THEN [paths |-> [i \in 1..Len(data.items) |-> UnmarshalPath(data.items[i])],
          err |-> Nil]
    ELSE [paths |-> <<>>, err |-> Nil]

\* json.Unmarshal(cached, &paths)
Unmarshal(data) ==
    CASE data.json = "array" ->
            [paths |-> [i \in 1..Len(data.items) |-> UnmarshalPath(data.items[i])],
             err |-> Nil]
      [] data.json = "null" -> [paths |-> <<>>, err |-> Nil]
      [] OTHER -> [paths |-> <<>>, err |-> CacheError]

\* the entries of the persistent tier: none, one that cannot be read, or bytes
Absent == [t |-> "absent", bytes |-> Garbage]

Unreadable == [t |-> "unreadable", bytes |-> Garbage]

Data(bytes) == [t |-> "data", bytes |-> bytes]

\* filecache.Get("ripples-trace", persistentCacheKey)
filecacheGet(store, pkey) ==
    IF store[pkey.sha256].t = "data"
    THEN [data |-> store[pkey.sha256].bytes, err |-> Nil]
    ELSE [data |-> Garbage, err |-> CacheError]

\* filecache.Set("ripples-trace", persistentCacheKey, data)
filecacheSet(store, pkey, data) == [store EXCEPT ![pkey.sha256] = Data(data)]

\* the entries of the in-process tier
NotCached == [ok |-> FALSE, paths |-> <<>>]

Cached(paths) == [ok |-> TRUE, paths |-> paths]

NoReturn == [paths |-> <<>>, err |-> "none"]

\* the persistent entry of the current call, read and deserialized
PersistentRead ==
    LET got == filecacheGet(persistent, PersistentCacheKey(CacheKey(csym)))
    IN  IF got.err = Nil THEN Unmarshal(got.data)
        ELSE [paths |-> <<>>, err |-> got.err]

IdleCache ==
    /\ persistent = [k \in CacheKeys |-> Absent]
    /\ memory = [k \in CacheKeys |-> NotCached]
    /\ cpc = "idle"
    /\ csym = "LogMessage"
    /\ cret = NoReturn
    /\ cprov = 0
    /\ chit = {}
    /\ cdamaged = FALSE
    /\ ccomputed = NoReturn
    /\ stored = [f \in CacheSymbols |-> <<>>]
    /\ tiers = [f \in CacheSymbols |-> {}]

\* TraceToMain is called for a function
CachedTraceToMain ==
    /\ cpc \in {"idle", "done"}
    /\ \E f \in CacheSymbols :
          /\ csym' = f
          /\ chit' = tiers[f]
          /\ cdamaged' = (persistent[CacheKey(f)] \in {Unreadable, Data(Garbage)})
    /\ cpc' = "persistent"
    /\ cret' = NoReturn
    /\ cprov' = 0
    /\ ccomputed' = NoReturn
    /\ UNCHANGED <<persistent, memory, stored, tiers>>
    /\ UNCHANGED <<avars, tvars, rvars, ivars, kvars, svars, zvars>>

\* 1. the persistent tier holds the entry and it deserializes: it is copied to
\*    the in-process tier and returned
CachePersistentHit ==
    /\ cpc = "persistent"
    /\ PersistentRead.err = Nil
    /\ memory' = [memory EXCEPT ![CacheKey(csym)] = Cached(PersistentRead.paths)]
    /\ cret' = [paths |-> PersistentRead.paths, err |-> Nil]
    /\ cpc' = "done"
    /\ tiers' = [tiers EXCEPT ![csym] = @ \cup {"memory"}]
    /\ UNCHANGED <<persistent, csym, cprov, chit, cdamaged, ccomputed, stored>>
    /\ UNCHANGED <<avars, tvars, rvars, ivars, kvars, svars, zvars>>

\* 1. Get or Unmarshal gave an error: on to the in-process tier
CachePersistentMiss ==
    /\ cpc = "persistent"
    /\ PersistentRead.err # Nil
    /\ cpc' = "memory"
    /\ UNCHANGED <<persistent, memory, csym, cret, cprov, chit, cdamaged, ccomputed,
                   stored, tiers>>
    /\ UNCHANGED <<avars, tvars, rvars, ivars, kvars, svars, zvars>>

\* 2. the in-process tier holds the entry
CacheMemoryHit ==
    /\ cpc = "memory"
    /\ memory[CacheKey(csym)].ok
    /\ cret' = [paths |-> memory[CacheKey(csym)].paths, err |-> Nil]
    /\ cpc' = "done"
    /\ UNCHANGED <<persistent, memory, csym, cprov, chit, cdamaged, ccomputed,
                   stored, tiers>>
    /\ UNCHANGED <<avars, tvars, rvars, ivars, kvars, svars, zvars>>

CacheMemoryMiss ==
    /\ cpc = "memory"
    /\ ~memory[CacheKey(csym)].ok
    /\ cpc' = "compute"
    /\ UNCHANGED <<persistent, memory, csym, cret, cprov, chit, cdamaged, ccomputed,
                   stored, tiers>>
    /\ UNCHANGED <<avars, tvars, rvars, ivars, kvars, svars, zvars>>

\* 3. the full trace fails: its error is returned and nothing is stored
CacheComputeFail ==
    /\ cpc = "compute"
    /\ cprov' = cprov + 1
    /\ ccomputed' = [paths |-> <<>>, err |-> TraceError]
    /\ cret' = [paths |-> <<>>, err |-> TraceError]
    /\ cpc' = "done"
    /\ UNCHANGED <<persistent, memory, csym, chit, cdamaged, stored, tiers>>
    /\ UNCHANGED <<avars, tvars, rvars, ivars, kvars, svars, zvars>>

\* 3. the full trace succeeds; 4. its result goes to the in-process tier
CacheCompute ==
    /\ cpc = "compute"
    /\ \E paths \in CacheValues :
          /\ ccomputed' = [paths |-> paths, err |-> Nil]
          /\ memory' = [memory EXCEPT ![CacheKey(csym)] = Cached(paths)]
          /\ stored' = [stored EXCEPT ![csym] = paths]
    /\ cprov' = cprov + 1
    /\ tiers' = [tiers EXCEPT ![csym] = {"memory"}]
    /\ cpc' = "store"
    /\ UNCHANGED <<persistent, csym, cret, chit, cdamaged>>
    /\ UNCHANGED <<avars, tvars, rvars, ivars, kvars, svars, zvars>>

\* 4. json.Marshal and filecache.Set; a failing Set is only logged
CacheStorePersistent ==
    /\ cpc = "store"
    /\ \E setOk \in BOOLEAN :
          IF setOk
          THEN /\ persistent' = filecacheSet(persistent,
                                    PersistentCacheKey(CacheKey(csym)),
                                    Marshal(ccomputed.paths))
               /\ tiers' = [tiers EXCEPT ![csym] = @ \cup {"persistent"}]
          ELSE UNCHANGED <<persistent, tiers>>
    /\ cret' = ccomputed
    /\ cpc' = "done"
    /\ UNCHANGED <<memory, csym, cprov, chit, cdamaged, ccomputed, stored>>
    /\ UNCHANGED <<avars, tvars, rvars, ivars, kvars, svars, zvars>>

\* the process ends and a new one starts: the in-process tier is empty again
CacheRestart ==
    /\ cpc \in {"idle", "done"}
    /\ \E k \in CacheKeys : memory[k].ok
    /\ memory' = [k \in CacheKeys |-> NotCached]
    /\ tiers' = [f \in CacheSymbols |-> tiers[f] \ {"memory"}]
    /\ cpc' = "idle"
    /\ UNCHANGED <<persistent, csym, cret, cprov, chit, cdamaged, ccomputed, stored>>
    /\ UNCHANGED <<avars, tvars, rvars, ivars, kvars, svars, zvars>>

\* between two calls a persistent entry is evicted, becomes unreadable or is
\* overwritten with bytes that are no JSON
CacheDamage ==
    /\ cpc \in {"idle", "done"}
    /\ \E f \in CacheSymbols, e \in {Absent, Unreadable, Data(Garbage)} :
          /\ persistent[CacheKey(f)] # e
          /\ persistent' = [persistent EXCEPT ![CacheKey(f)] = e]
          /\ tiers' = [g \in CacheSymbols |->
                          IF CacheKey(g) = CacheKey(f) THEN tiers[g] \ {"persistent"}
                          ELSE tiers[g]]
    /\ UNCHANGED <<memory, cpc, csym, cret, cprov, chit, cdamaged, ccomputed, stored>>
    /\ UNCHANGED <<avars, tvars, rvars, ivars, kvars, svars, zvars>>

NextCache ==
    \/ CachedTraceToMain
    \/ CachePersistentHit
    \/ CachePersistentMiss
    \/ CacheMemoryHit
    \/ CacheMemoryMiss
    \/ CacheComputeFail
    \/ CacheCompute
    \/ CacheStorePersistent
    \/ CacheRestart
    \/ CacheDamage

(***************************************************************************)
(* DirectTracer.filterAmbiguousInterfaceCalls of the tracer library, after *)
(* part_001 (tracer.go 850-952) and docs/IMPLEMENTATION_NOTES.md: the      *)
(* callers of an interface method are scored against the path traced so    *)
(* far and the low scores are dropped.  The library is not in the          *)
(* repository.  Package paths are sequences of segments here and strings   *)
(* of characters where a prefix is measured.                               *)
(***************************************************************************)
\* the packages of the example in part_001, and one of another module
ScorePkgs ==
    { <<"repo", "pkg", "grace">>, <<"repo", "internal", "bill">>,
      <<"repo", "internal", "rfs">>, <<"repo", "cmd", "bill">>,
      <<"vendor", "hook">> }

\* the characters of a segment
SegChars(seg) ==
    CASE seg = "repo"     -> <<"r", "e", "p", "o">>
      [] seg = "pkg"      -> <<"p", "k", "g">>
      [] seg = "grace"    -> <<"g", "r", "a", "c", "e">>
      [] seg = "internal" -> <<"i", "n", "t", "e", "r", "n", "a", "l">>
      [] seg = "bill"     -> <<"b", "i", "l", "l">>
      [] seg = "rfs"      -> <<"r", "f", "s">>
      [] seg = "cmd"      -> <<"c", "m", "d">>
      [] seg = "vendor"   -> <<"v", "e", "n", "d", "o", "r">>
      [] OTHER            -> <<"h", "o", "o", "k">>

RECURSIVE PathString(_)
\* the package path as the string of its characters, segments joined by "/"
PathString(pkgPath) ==
    IF pkgPath = <<>> THEN <<>>
    ELSE IF Len(pkgPath) = 1 THEN SegChars(pkgPath[1])
    ELSE SegChars(pkgPath[1]) \o <<"/">> \o PathString(Tail(pkgPath))

RECURSIVE prefixFrom(_, _, _)
\* the loop of longestCommonPrefix: i characters are known to agree
prefixFrom(a, b, i) ==
    IF i < Len(a) /\ i < Len(b) /\ a[i + 1] = b[i + 1]
    THEN prefixFrom(a, b, i + 1)
    ELSE i

\* longestCommonPrefix(a, b): the number of leading characters a and b share
longestCommonPrefix(pkgA, pkgB) == prefixFrom(PathString(pkgA), PathString(pkgB), 0)

\* the items whose callers are filtered: a name with or without a receiver
ScoreItems ==
    [Name : {<<"Run">>, <<"BillServer", "Run">>}, Kind : {"Function", "Method"}]

\* strings.Contains(currentItem.Name, ".") || currentItem.Kind == protocol.Method
isLikelyInterfaceMethod(item) == Len(item.Name) > 1 \/ item.Kind = "Method"

MaxScorePath == 2

RECURSIVE prefixScore(_, _)
\* score 1: for each node of the path, a tenth of the prefix shared with it
prefixScore(currentPath, callerPkg) ==
    IF currentPath = <<>> THEN 0
    ELSE (longestCommonPrefix(Head(currentPath), callerPkg) \div 10)
         + prefixScore(Tail(currentPath), callerPkg)

RECURSIVE onPathScore(_, _)
\* score 3: 100 for each node of the path in the caller's package
onPathScore(currentPath, callerPkg) ==
    IF currentPath = <<>> THEN 0
    ELSE (IF Head(currentPath) = callerPkg THEN 100 ELSE 0)
         + onPathScore(Tail(currentPath), callerPkg)

\* the score of one caller
callerScore(currentPath, currentPkg, callerPkg) ==
    prefixScore(currentPath, callerPkg)
    + (longestCommonPrefix(currentPkg, callerPkg) \div 5)
    + onPathScore(currentPath, callerPkg)

\* a threshold that a score must exceed
aboveThresholdStrict(score, maxScore) == 2 * score > maxScore

\* SCORE_THRESHOLD_RATIO = 0.5: the score is at least half of the highest
aboveThreshold(score, maxScore) == 2 * score >= maxScore

\* a filter that also runs for items of a shared package
filterAppliesInShared(item, currentPkg, callerPkgs) ==
    /\ isLikelyInterfaceMethod(item)
    /\ Cardinality(callerPkgs) > 1

\* the filter runs for an interface method with callers in more than one
\* package whose own package is not shared
filterApplies(item, currentPkg, callerPkgs) ==
    /\ isLikelyInterfaceMethod(item)
    /\ Cardinality(callerPkgs) > 1
    /\ ~isCommonPackageFull(currentPkg)

IdleScore ==
    /\ spc = "idle"
    /\ sitem = [Name |-> <<"Run">>, Kind |-> "Function"]
    /\ scurrentPath = <<>>
    /\ sincoming = {}
    /\ scores = [c \in {} |-> 0]
    /\ sretained = {}

\* the package of the item being expanded: the first node of the path
scurrentPkg == Head(scurrentPath)

\* the filter does not apply: every caller is kept
FilterReturnAll ==
    /\ spc = "start"
    /\ ~filterApplies(sitem, scurrentPkg, sincoming)
    /\ sretained' = sincoming
    /\ spc' = "done"
    /\ UNCHANGED <<sitem, scurrentPath, sincoming, scores>>
    /\ UNCHANGED <<avars, tvars, rvars, ivars, cvars, kvars, zvars>>

\* step 3: every caller gets its score
ScoreCallers ==
    /\ spc = "start"
    /\ filterApplies(sitem, scurrentPkg, sincoming)
    /\ scores' = [c \in sincoming |-> callerScore(scurrentPath, scurrentPkg, c)]
    /\ spc' = "scored"
    /\ UNCHANGED <<sitem, scurrentPath, sincoming, sretained>>
    /\ UNCHANGED <<avars, tvars, rvars, ivars, cvars, kvars, zvars>>

\* step 4: the callers below the threshold are dropped
FilterLowScores ==
    /\ spc = "scored"
    /\ LET maxScore == CHOOSE m \in {scores[c] : c \in sincoming} :
                          \A c \in sincoming : scores[c] <= m
       IN sretained' = {c \in sincoming : aboveThreshold(scores[c], maxScore)}
    /\ spc' = "done"
    /\ UNCHANGED <<sitem, scurrentPath, sincoming, scores>>
    /\ UNCHANGED <<avars, tvars, rvars, ivars, cvars, kvars, zvars>>

NextScore == FilterReturnAll \/ ScoreCallers \/ FilterLowScores

(***************************************************************************)
(* Cancellation of the context an analyzer was made with                   *)
(* (NewLSPImpactAnalyzer hands it to the tracer; Analyze takes none).      *)
(***************************************************************************)
IdleCancel == cancelled = FALSE

\* the context is cancelled while Analyze waits for a trace still in flight
ContextCancel ==
    /\ apc = "collect"
    /\ ~cancelled
    /\ \E i \in Range(supportedChanges) : wpc[i] = "spawned"
    /\ cancelled' = TRUE
    /\ UNCHANGED <<avars, tvars, rvars, ivars, cvars, svars, zvars>>

\* line 82 under a cancelled context: the trace in flight aborts with the
\* context's error
WorkerAbort(i) ==
    /\ cancelled
    /\ wpc[i] = "spawned"
    /\ wout' = [wout EXCEPT ![i] = [paths |-> <<>>, err |-> TraceError]]
    /\ failures' = failures + 1
    /\ traceCalls' = [traceCalls EXCEPT ![i] = @ + 1]
    /\ wpc' = [wpc EXCEPT ![i] = "traced"]
    /\ UNCHANGED <<changes, apc, supportedChanges, results, closed, seenBinaries,
                   affectedBinaries, retBinaries, retErr, produced, dropped>>
    /\ UNCHANGED <<tvars, rvars, ivars, xvars>>

NextCancel ==
    \/ AnalyzeStart
    \/ \E i \in Workers : ~cancelled /\ WorkerTrace(i)
    \/ \E i \in Workers : WorkerAbort(i)
    \/ \E i \in Workers : WorkerSend(i)
    \/ CloseResults
    \/ CollectorReceive
    \/ AnalyzeReturn
    \/ ContextCancel

(***************************************************************************)
(* The service boundary: the package of a caller's file, its class and its *)
(* service, and the cross-service check of traceIncomingCalls, applied to  *)
(* the directories a repository can hold.                                  *)
(***************************************************************************)
BoundarySegs ==
    {"pkg", "api", "internal", "cmd", "common", "serviceA", "bill", "grace", "client"}

MaxDirLen == 3

\* the directories of the source files below the repository root
BoundaryDirs == {<<"repo">> \o d : d \in SeqsUpTo(BoundarySegs, MaxDirLen)}

BoundaryPkgs ==
    {<<"internal", "bill">>, <<"cmd", "serviceA">>, <<"pkg", "grace">>}

MaxBoundaryPath == 2

\* the nodes a trace has on its path when a caller is examined
BoundaryPaths ==
    {[i \in 1..Len(s) |-> [PackagePath |-> s[i]]] :
        s \in SeqsUpTo(BoundaryPkgs, MaxBoundaryPath)}

IdleBoundary ==
    /\ bdir = <<>> /\ bpath = <<>> /\ bpc = "idle" /\ bpkg = <<>>
    /\ bshared = FALSE /\ bservice = "" /\ bcross = FALSE

\* the caller's node is made from the URI of its file
BoundaryExtract ==
    /\ bpc = "start"
    /\ bpkg' = extractPackageFromURI(FileURI(bdir, "caller.go"))
    /\ bpc' = "extracted"
    /\ UNCHANGED <<bdir, bpath, bshared, bservice, bcross>>
    /\ UNCHANGED <<avars, tvars, rvars, ivars, cvars, kvars, svars>>
    /\ UNCHANGED <<dvars, ovars, pvars>>

\* the class and the service of the caller's package
BoundaryClassify ==
    /\ bpc = "extracted"
    /\ bshared' = isCommonPackage(bpkg)
    /\ bservice' = extractServiceName(bpkg)
    /\ bpc' = "classified"
    /\ UNCHANGED <<bdir, bpath, bpkg, bcross>>
    /\ UNCHANGED <<avars, tvars, rvars, ivars, cvars, kvars, svars>>
    /\ UNCHANGED <<dvars, ovars, pvars>>

\* the caller is skipped when the check answers true
BoundaryCross ==
    /\ bpc = "classified"
    /\ bcross' = isCrossServiceCall(bpkg, bpath)
    /\ bpc' = "done"
    /\ UNCHANGED <<bdir, bpath, bpkg, bshared, bservice>>
    /\ UNCHANGED <<avars, tvars, rvars, ivars, cvars, kvars, svars>>
    /\ UNCHANGED <<dvars, ovars, pvars>>

NextBoundary == BoundaryExtract \/ BoundaryClassify \/ BoundaryCross

(***************************************************************************)
(* The dispatch of a changed symbol: the kind filter of Analyze, then      *)
(* DirectCallTracer.TraceToMain.  The sources hold two definitions of that *)
(* method, one that serves functions only and one that switches on the     *)
(* kind; the tracer in use is either.                                      *)
(***************************************************************************)
NoDispatch == [strategy |-> "none", target |-> <<>>, err |-> "none"]

TraceDefinitions == {"function-only", "switch"}

\* the changed symbols handed to Analyze: one of every kind, and imports
DispatchSymbols ==
    {Symbol("S", k, Logger, NoExtra) : k \in SymbolKinds} \cup InitOrImportSymbols

\* direct_tracer.go: `if symbol.Kind != parser.SymbolKindFunction` is an error,
\* a function goes to the call trace
TraceToMainFunctionOnly(symbol) ==
    IF symbol.Kind # "Function"
    THEN [strategy |-> "none", target |-> <<>>, err |-> "symbol is not a function"]
    ELSE [strategy |-> "calls", target |-> <<>>, err |-> Nil]

\* Analyze, lines 40-50: kinds that are not supported are left out
DispatchFilter ==
    /\ dpc = "start"
    /\ dpc' = IF isSupportedSymbolKind(dsym.Kind) THEN "supported" ELSE "skipped"
    /\ UNCHANGED <<dsym, dimpl, dout>>
    /\ UNCHANGED <<avars, tvars, rvars, ivars, cvars, kvars, svars>>
    /\ UNCHANGED <<bvars, ovars, pvars>>

\* the worker's call of TraceToMain, served by the definition for functions
DispatchFunctionOnly ==
    /\ dpc = "supported"
    /\ dimpl = "function-only"
    /\ dout' = TraceToMainFunctionOnly(dsym)
    /\ dpc' = "done"
    /\ UNCHANGED <<dsym, dimpl>>
    /\ UNCHANGED <<avars, tvars, rvars, ivars, cvars, kvars, svars>>
    /\ UNCHANGED <<bvars, ovars, pvars>>

\* the worker's call of TraceToMain, served by the switch on the kind
DispatchSwitch ==
    /\ dpc = "supported"
    /\ dimpl = "switch"
    /\ dout' = Dispatch(dsym)
    /\ dpc' = "done"
    /\ UNCHANGED <<dsym, dimpl>>
    /\ UNCHANGED <<avars, tvars, rvars, ivars, cvars, kvars, svars>>
    /\ UNCHANGED <<bvars, ovars, pvars>>

NextDispatch == DispatchFilter \/ DispatchFunctionOnly \/ DispatchSwitch

(***************************************************************************)
(* Two traces of one symbol over one call graph: TraceToMain is called     *)
(* again and the provider may list the callers in another order.           *)
(***************************************************************************)
\* call sites of the shared Logger.Log in the Run method of either service
OrderEdges == {<<"Log", "RunA">>, <<"Log", "RunB">>}

OrderGraphs == {WithEdges(BaseCallers, E) : E \in SUBSET OrderEdges}

OrderFuncs == {"Log", "LogMessage", "RunA"}

\* the first trace has returned; the second starts from the same symbol
TraceAgain ==
    /\ oround = 1
    /\ tpc = "done"
    /\ oprev' = [binaries |-> {tpaths[i].BinaryName : i \in 1..Len(tpaths)},
                 err |-> terr]
    /\ oround' = 2
    /\ tpc' = "start"
    /\ stack' = <<>>
    /\ visited' = {}
    /\ tseen' = {}
    /\ tpaths' = <<>>
    /\ terr' = "none"
    /\ UNCHANGED <<callers, tsym, requests, provFailed>>
    /\ UNCHANGED <<avars, rvars, ivars, cvars, kvars, svars>>
    /\ UNCHANGED <<bvars, dvars, pvars>>

NextRetrace == NextTrace \/ TraceAgain

\* no first trace yet
NoTrace == [binaries |-> {}, err |-> "none"]

NoFileDiff == [Filename |-> "", Hunks |-> <<>>, ChangedLines |-> <<>>]

(***************************************************************************)
(* ParseDiff (internal/git/diff.go) on one file diff: the lines of a hunk  *)
(* body are sequences of characters.                                       *)
(***************************************************************************)
HasPrefix(line, prefix) ==
    Len(line) >= Len(prefix) /\ SubSeq(line, 1, Len(prefix)) = prefix

\* an added, a deleted and a context line with ordinary content, an added
\* line whose content is "++", a deleted line whose content is "--", an empty
\* line, and the marker "\ No newline at end of file"
BodyLines ==
    { <<"+", "x">>, <<"-", "x">>, <<" ", "x">>, <<"+", "+", "+">>,
      <<"-", "-", "-">>, <<>>, <<"\\">> }

MaxBodyLen == 3

\* the lines of a body that exist in the new file
InNewFile(line) == line = <<>> \/ line[1] \in {"+", " "}

\* a hunk as diff.ParseMultiFileDiff hands it over; a hunk that leaves no line
\* in the new file has NewStartLine 0
DiffHunks ==
    {[NewStartLine |-> s, NewLines |-> Cardinality({i \in 1..Len(b) : InNewFile(b[i])}),
      Body |-> b] :
        s \in {1, 7}, b \in SeqsUpTo(BodyLines, MaxBodyLen)}
    \cup {[NewStartLine |-> 0, NewLines |-> 0, Body |-> b] :
            b \in {c \in SeqsUpTo(BodyLines, MaxBodyLen) :
                      c # <<>> /\ \A i \in 1..Len(c) : ~InNewFile(c[i])}}

\* a further hunk of the file
LaterHunk == [NewStartLine |-> 20, NewLines |-> 1, Body |-> << <<"+", "x">> >>]

\* strings.TrimPrefix(d.NewName, "b/")
TrimNewName(name) == IF name = "b/x.go" THEN "x.go" ELSE name

PHunk == phunks[phunk]

PLine == PHunk.Body[pline + 1]

\* line 90
IsHeaderLine(line) ==
    HasPrefix(line, <<"+", "+", "+">>) \/ HasPrefix(line, <<"-", "-", "-">>)

\* lines 57-59: the diff of a deleted file is left out
ParseSkipFile ==
    /\ ppc = "start"
    /\ pname = "/dev/null"
    /\ pres' = <<>>
    /\ ppc' = "done"
    /\ UNCHANGED <<pname, phunks, phunk, pline, pcur, padded, pfd>>
    /\ UNCHANGED <<avars, tvars, rvars, ivars, cvars, kvars, svars>>
    /\ UNCHANGED <<bvars, dvars, ovars>>

\* lines 62-71: the FileDiff of the file
ParseFileStart ==
    /\ ppc = "start"
    /\ pname # "/dev/null"
    /\ pfd' = [Filename |-> TrimNewName(pname), Hunks |-> <<>>, ChangedLines |-> <<>>]
    /\ phunk' = 1
    /\ ppc' = "hunk"
    /\ UNCHANGED <<pname, phunks, pline, pcur, padded, pres>>
    /\ UNCHANGED <<avars, tvars, rvars, ivars, cvars, kvars, svars>>
    /\ UNCHANGED <<bvars, dvars, ovars>>

\* lines 75-77: a hunk with NewStartLine 0 is left out
HunkSkip ==
    /\ ppc = "hunk"
    /\ phunk <= Len(phunks)
    /\ PHunk.NewStartLine = 0
    /\ phunk' = phunk + 1
    /\ UNCHANGED <<pname, phunks, ppc, pline, pcur, padded, pfd, pres>>
    /\ UNCHANGED <<avars, tvars, rvars, ivars, cvars, kvars, svars>>
    /\ UNCHANGED <<bvars, dvars, ovars>>

\* lines 80-85: the scanner over the body, the counter at NewStartLine
HunkStart ==
    /\ ppc = "hunk"
    /\ phunk <= Len(phunks)
    /\ PHunk.NewStartLine # 0
    /\ padded' = <<>>
    /\ pline' = 0
    /\ pcur' = PHunk.NewStartLine
    /\ ppc' = "scan"
    /\ UNCHANGED <<pname, phunks, phunk, pfd, pres>>
    /\ UNCHANGED <<avars, tvars, rvars, ivars, cvars, kvars, svars>>
    /\ UNCHANGED <<bvars, dvars, ovars>>

\* lines 90-92: a line that starts with "+++" or "---" is passed over
ScanHeader ==
    /\ ppc = "scan"
    /\ pline < Len(PHunk.Body)
    /\ IsHeaderLine(PLine)
    /\ pline' = pline + 1
    /\ UNCHANGED <<pname, phunks, ppc, phunk, pcur, padded, pfd, pres>>
    /\ UNCHANGED <<avars, tvars, rvars, ivars, cvars, kvars, svars>>
    /\ UNCHANGED <<bvars, dvars, ovars>>

\* lines 94-101: an added line
ScanAdded ==
    /\ ppc = "scan"
    /\ pline < Len(PHunk.Body)
    /\ ~IsHeaderLine(PLine)
    /\ HasPrefix(PLine, <<"+">>)
    /\ padded' = Append(padded, [LineNumber |-> pcur, LineContent |-> Tail(PLine)])
    /\ pfd' = [pfd EXCEPT !.ChangedLines = Append(@, pcur)]
    /\ pcur' = pcur + 1
    /\ pline' = pline + 1
    /\ UNCHANGED <<pname, phunks, ppc, phunk, pres>>
    /\ UNCHANGED <<avars, tvars, rvars, ivars, cvars, kvars, svars>>
    /\ UNCHANGED <<bvars, dvars, ovars>>

\* lines 102-105: a deleted line
ScanDeleted ==
    /\ ppc = "scan"
    /\ pline < Len(PHunk.Body)
    /\ ~IsHeaderLine(PLine)
    /\ ~HasPrefix(PLine, <<"+">>)
    /\ HasPrefix(PLine, <<"-">>)
    /\ pline' = pline + 1
    /\ UNCHANGED <<pname, phunks, ppc, phunk, pcur, padded, pfd, pres>>
    /\ UNCHANGED <<avars, tvars, rvars, ivars, cvars, kvars, svars>>
    /\ UNCHANGED <<bvars, dvars, ovars>>

\* lines 106-109: a context line or an empty line
ScanContext ==
    /\ ppc = "scan"
    /\ pline < Len(PHunk.Body)
    /\ ~IsHeaderLine(PLine)
    /\ ~HasPrefix(PLine, <<"+">>)
    /\ ~HasPrefix(PLine, <<"-">>)
    /\ HasPrefix(PLine, <<" ">>) \/ PLine = <<>>
    /\ pcur' = pcur + 1
    /\ pline' = pline + 1
    /\ UNCHANGED <<pname, phunks, ppc, phunk, padded, pfd, pres>>
    /\ UNCHANGED <<avars, tvars, rvars, ivars, cvars, kvars, svars>>
    /\ UNCHANGED <<bvars, dvars, ovars>>

\* any other line falls through the chain of tests
ScanOther ==
    /\ ppc = "scan"
    /\ pline < Len(PHunk.Body)
    /\ ~IsHeaderLine(PLine)
    /\ ~HasPrefix(PLine, <<"+">>)
    /\ ~HasPrefix(PLine, <<"-">>)
    /\ ~(HasPrefix(PLine, <<" ">>) \/ PLine = <<>>)
    /\ pline' = pline + 1
    /\ UNCHANGED <<pname, phunks, ppc, phunk, pcur, padded, pfd, pres>>
    /\ UNCHANGED <<avars, tvars, rvars, ivars, cvars, kvars, svars>>
    /\ UNCHANGED <<bvars, dvars, ovars>>

\* lines 114-121: the hunk is recorded with its added lines
HunkEnd ==
    /\ ppc = "scan"
    /\ pline = Len(PHunk.Body)
    /\ pfd' = [pfd EXCEPT !.Hunks =
                  Append(@, [NewStartLine |-> PHunk.NewStartLine,
                             NewLines |-> PHunk.NewLines,
                             AddedLines |-> padded,
                             ModifiedLines |-> padded])]
    /\ phunk' = phunk + 1
    /\ ppc' = "hunk"
    /\ UNCHANGED <<pname, phunks, pline, pcur, padded, pres>>
    /\ UNCHANGED <<avars, tvars, rvars, ivars, cvars, kvars, svars>>
    /\ UNCHANGED <<bvars, dvars, ovars>>

\* lines 124-127: res = append(res, fd); return res, nil
ParseReturn ==
    /\ ppc = "hunk"
    /\ phunk > Len(phunks)
    /\ pres' = <<pfd>>
    /\ ppc' = "done"
    /\ UNCHANGED <<pname, phunks, phunk, pline, pcur, padded, pfd>>
    /\ UNCHANGED <<avars, tvars, rvars, ivars, cvars, kvars, svars>>
    /\ UNCHANGED <<bvars, dvars, ovars>>

NextParse ==
    \/ ParseSkipFile
    \/ ParseFileStart
    \/ HunkSkip
    \/ HunkStart
    \/ ScanHeader
    \/ ScanAdded
    \/ ScanDeleted
    \/ ScanContext
    \/ ScanOther
    \/ HunkEnd
    \/ ParseReturn

IdleDispatch ==
    /\ dsym = Symbol("S", "Function", Logger, NoExtra)
    /\ dimpl = "none" /\ dpc = "idle" /\ dout = NoDispatch

IdleRetrace == oround = 0 /\ oprev = NoTrace

IdleParse ==
    /\ pname = "" /\ phunks = <<>> /\ ppc = "idle" /\ phunk = 0 /\ pline = 0
    /\ pcur = 0 /\ padded = <<>> /\ pfd = NoFileDiff /\ pres = <<>>

\* the groups of the machines added last, at rest
IdleLast == IdleBoundary /\ IdleDispatch /\ IdleRetrace /\ IdleParse

\* the groups added after the four machines above, at rest
IdleRest == IdleCache /\ IdleCancel /\ IdleScore /\ IdleLast

(***************************************************************************)
(* Specifications                                                          *)
(***************************************************************************)
InitAnalyze == InitAnalyzeVars /\ IdleTrace /\ IdleRefs /\ IdleImport /\ IdleRest

SpecAnalyze == InitAnalyze /\ [][NextAnalyze]_vars

\* every goroutine of Analyze that can take a step is scheduled: the caller,
\* each worker, the closer and the collecting loop; every trace returns
FairSpecAnalyze ==
    /\ SpecAnalyze
    /\ WF_vars(AnalyzeStart)
    /\ \A i \in Workers : WF_vars(WorkerTrace(i)) /\ WF_vars(WorkerSend(i))
    /\ WF_vars(CloseResults)
    /\ WF_vars(CollectorReceive)
    /\ WF_vars(AnalyzeReturn)

InitTrace ==
    /\ IdleAnalyze /\ IdleRefs /\ IdleImport /\ IdleRest
    /\ callers \in CallGraphs
    /\ tsym \in [Kind : {"Function", "Variable"}, Decl : FixtureFuncs]
    /\ tpc = "start"
    /\ stack = <<>>
    /\ visited = {}
    /\ tseen = {}
    /\ tpaths = <<>>
    /\ terr = "none"
    /\ requests = [f \in Funcs |-> 0]
    /\ provFailed = 0

SpecTrace == InitTrace /\ [][NextTrace]_vars

\* a running trace takes its next step
FairSpecTrace == SpecTrace /\ WF_vars(NextTrace)

\* the function trace over the workspace with nested entry packages
InitEntries ==
    /\ IdleAnalyze /\ IdleRefs /\ IdleImport /\ IdleRest
    /\ callers \in NestedGraphs
    /\ tsym \in [Kind : {"Function", "Variable"}, Decl : NestedFuncs]
    /\ tpc = "start"
    /\ stack = <<>>
    /\ visited = {}
    /\ tseen = {}
    /\ tpaths = <<>>
    /\ terr = "none"
    /\ requests = [f \in Funcs |-> 0]
    /\ provFailed = 0

SpecEntries == InitEntries /\ [][NextTrace]_vars

\* a symbol traced twice over a graph in which both services call Logger.Log
InitRetrace ==
    /\ IdleAnalyze /\ IdleRefs /\ IdleImport
    /\ IdleCache /\ IdleCancel /\ IdleScore
    /\ IdleBoundary /\ IdleDispatch /\ IdleParse
    /\ callers \in OrderGraphs
    /\ tsym \in [Kind : {"Function", "Variable"}, Decl : OrderFuncs]
    /\ tpc = "start"
    /\ stack = <<>>
    /\ visited = {}
    /\ tseen = {}
    /\ tpaths = <<>>
    /\ terr = "none"
    /\ requests = [f \in Funcs |-> 0]
    /\ provFailed = 0
    /\ oround = 1
    /\ oprev = NoTrace

SpecRetrace == InitRetrace /\ [][NextRetrace]_vars

InitRefs ==
    /\ IdleAnalyze /\ IdleTrace /\ IdleImport /\ IdleRest
    /\ refs \in SeqsUpTo(RefSites, MaxRefs)
    /\ rpc = "start"
    /\ pending = <<>>
    /\ ascents = <<>>
    /\ rpaths = <<>>
    /\ rerr = "none"
    /\ skipped = 0

SpecRefs == InitRefs /\ [][NextRefs]_vars

InitImport ==
    /\ IdleAnalyze /\ IdleTrace /\ IdleRefs /\ IdleRest
    /\ imports \in ImportGraphs
    /\ isym \in InitOrImportSymbols
    /\ ipc = "start"
    /\ mainsTodo = <<>>
    /\ istack = <<>>
    /\ ivisited = {}
    /\ ipaths = <<>>
    /\ ierr = "none"

SpecImport == InitImport /\ [][NextImport]_vars

\* a running search takes its next step
FairSpecImport == SpecImport /\ WF_vars(NextImport)

\* the traversal of the tracer library over the same call graphs
SpecDirect == InitTrace /\ [][NextDirect]_vars

InitCache ==
    /\ IdleAnalyze /\ IdleTrace /\ IdleRefs /\ IdleImport
    /\ IdleCache /\ IdleCancel /\ IdleScore /\ IdleLast

\* the filter is called with a path, an item and the packages of its callers
InitScore ==
    /\ IdleAnalyze /\ IdleTrace /\ IdleRefs /\ IdleImport
    /\ IdleCache /\ IdleCancel /\ IdleLast
    /\ spc = "start"
    /\ sitem \in ScoreItems
    /\ scurrentPath \in SeqsUpTo(ScorePkgs, MaxScorePath) \ {<<>>}
    /\ sincoming \in {S \in SUBSET ScorePkgs : S # {} /\ Cardinality(S) <= 3}
    /\ scores = [c \in {} |-> 0]
    /\ sretained = {}

SpecScore == InitScore /\ [][NextScore]_vars

\* one caller in any directory of the repository, examined on any path
InitBoundary ==
    /\ IdleAnalyze /\ IdleTrace /\ IdleRefs /\ IdleImport
    /\ IdleCache /\ IdleCancel /\ IdleScore
    /\ IdleDispatch /\ IdleRetrace /\ IdleParse
    /\ bdir \in BoundaryDirs
    /\ bpath \in BoundaryPaths
    /\ bpc = "start"
    /\ bpkg = <<>>
    /\ bshared = FALSE
    /\ bservice = ""
    /\ bcross = FALSE

SpecBoundary == InitBoundary /\ [][NextBoundary]_vars

\* one changed symbol, and the definition of TraceToMain that serves it
InitDispatch ==
    /\ IdleAnalyze /\ IdleTrace /\ IdleRefs /\ IdleImport
    /\ IdleCache /\ IdleCancel /\ IdleScore
    /\ IdleBoundary /\ IdleRetrace /\ IdleParse
    /\ dsym \in DispatchSymbols
    /\ dimpl \in TraceDefinitions
    /\ dpc = "start"
    /\ dout = NoDispatch

SpecDispatch == InitDispatch /\ [][NextDispatch]_vars

\* the diff of one file with one or two hunks
InitParse ==
    /\ IdleAnalyze /\ IdleTrace /\ IdleRefs /\ IdleImport
    /\ IdleCache /\ IdleCancel /\ IdleScore
    /\ IdleBoundary /\ IdleDispatch /\ IdleRetrace
    /\ pname \in {"b/x.go", "/dev/null"}
    /\ phunks \in {<<h>> : h \in DiffHunks} \cup {<<h, LaterHunk>> : h \in DiffHunks}
    /\ ppc = "start"
    /\ phunk = 0
    /\ pline = 0
    /\ pcur = 0
    /\ padded = <<>>
    /\ pfd = NoFileDiff
    /\ pres = <<>>

SpecParse == InitParse /\ [][NextParse]_vars

\* Analyze runs on changed functions and structs under a context that may be
\* cancelled
InitCancel ==
    /\ InitAnalyze
    /\ \A i \in 1..Len(changes) : changes[i].Kind \in {"Function", "Struct"}

SpecCancel == InitCancel /\ [][NextCancel]_vars

SpecCache == InitCache /\ [][NextCache]_vars

(***************************************************************************)
(* Annotations of the workspace used by the properties below.  They state  *)
(* who owns a function and which binary a main function builds; no action  *)
(* of the model reads them.                                                *)
(***************************************************************************)
Services == {"service-a", "service-b"}

Owner(f) ==
    CASE f \in {"mainA", "ProcA", "LogicA", "RunA"} -> "service-a"
      [] f \in {"mainB", "ProcB", "LogicB", "RunB"} -> "service-b"
      [] f \in {"mainServer", "DoWithRetry"} -> "server"
      [] f = "mainSrvA" -> "a/server"
      [] f = "mainSrvB" -> "b/server"
      [] OTHER -> "shared"

MainOf(s) ==
    CASE s = "service-a" -> "mainA"
      [] s = "service-b" -> "mainB"
      [] OTHER -> "mainServer"

OwnedBy(S) == {f \in Funcs : Owner(f) \in S}

RECURSIVE CallersVia(_, _)
\* the functions that reach a function of S by a chain of calls whose callers
\* all lie in allowed
CallersVia(S, allowed) ==
    LET N == S \cup {c \in allowed : \E f \in S : c \in callers[f]}
    IN IF N = S THEN S ELSE CallersVia(N, allowed)

BinariesOf(paths) == {paths[i].BinaryName : i \in 1..Len(paths)}

\* the binaries a function trace started at f owes: the services whose main
\* reaches f, restricted to the owner of f when f is service-private
ExpectedBinaries(f) ==
    {s \in Services :
        /\ MainOf(s) \in CallersVia({f}, Funcs)
        /\ Owner(f) \in {"shared", s}}

RECURSIVE ImportClosure(_)
ImportClosure(S) ==
    LET N == S \cup UNION {imports[p] : p \in S}
    IN IF N = S THEN S ELSE ImportClosure(N)

\* the entry packages from which package P is reachable by one or more imports
EntriesReaching(P) ==
    {m \in Pkgs : PkgName(m) = "main" /\ P \in ImportClosure(imports[m])}

(***************************************************************************)
(* Properties of Analyze                                                   *)
(***************************************************************************)
\* C1: the list Analyze builds and returns never holds two AffectedBinary
\* values with the same Name, whatever the traces returned and in whatever
\* order their results arrived.
C1_AtMostOnePerName ==
    /\ \A i, j \in 1..Len(affectedBinaries) :
          i # j => affectedBinaries[i].Name # affectedBinaries[j].Name
    /\ \A i, j \in 1..Len(retBinaries) :
          i # j => retBinaries[i].Name # retBinaries[j].Name

\* Analyze has returned after the collector met a binary a second time
C1_Witness ==
    /\ apc = "done"
    /\ dropped
    /\ Len(retBinaries) >= 1

\* C5: when Analyze returns, its error is nil and the returned binaries are
\* exactly those carried by the traces that succeeded, however many traces
\* failed.
C5_FailureIsolation ==
    apc = "done" =>
        /\ retErr = Nil
        /\ {retBinaries[i].Name : i \in 1..Len(retBinaries)} = produced

\* Analyze has returned binaries although a trace failed
C5_Witness ==
    /\ apc = "done"
    /\ failures >= 1
    /\ retBinaries # <<>>
    /\ retErr = Nil

\* C6: the list Analyze returns is sorted by binary name.
C6_SortedByName ==
    apc = "done" =>
        \A i, j \in 1..Len(retBinaries) :
            i < j => NameRank(retBinaries[i].Name) <= NameRank(retBinaries[j].Name)

\* C7: a symbol whose kind is not Function, Constant, Variable, Init or Import
\* never gets a worker or a trace; Analyze returns a nil error, and an empty
\* result when no symbol has one of these kinds.
C7_UnsupportedKindsSkipped ==
    LET supported == {"Function", "Constant", "Variable", "Init", "Import"} IN
    /\ \A i \in 1..Len(changes) :
          changes[i].Kind \notin supported =>
              /\ traceCalls[i] = 0
              /\ wpc[i] = "none"
              /\ i \notin Range(supportedChanges)
    /\ apc = "done" => retErr = Nil
    /\ (apc = "done" /\ \A i \in 1..Len(changes) : changes[i].Kind \notin supported)
          => /\ retBinaries = <<>>
             /\ \A w \in Workers : traceCalls[w] = 0

\* Analyze has returned a binary for a function while skipping a struct
C7_Witness ==
    /\ apc = "done"
    /\ \E i, j \in 1..Len(changes) :
          /\ changes[i].Kind = "Struct"
          /\ changes[j].Kind = "Function"
          /\ traceCalls[j] = 1
          /\ traceCalls[i] = 0
    /\ retBinaries # <<>>

C3_FanOut ==
    (tpc = "done" /\ terr = Nil /\ Owner(tsym.Decl) = "shared") =>
        /\ provFailed = 0 =>
              \A s \in Services :
                  MainOf(s) \in CallersVia({tsym.Decl}, OwnedBy({s}))
                      => s \in BinariesOf(tpaths)
        /\ \A b \in BinariesOf(tpaths) :
              /\ b \in Services
              /\ MainOf(b) \in CallersVia({tsym.Decl}, Funcs)
        /\ (/\ provFailed = 0
            /\ \A s \in Services :
                  MainOf(s) \in CallersVia({tsym.Decl}, OwnedBy({s})))
              => BinariesOf(tpaths) = {"service-a", "service-b"}
        /\ Len(tpaths) = Cardinality(BinariesOf(tpaths))

\* the trace of LogMessage in the fixture reported both services
C3_Witness ==
    /\ tpc = "done"
    /\ terr = Nil
    /\ tsym.Decl = "LogMessage"
    /\ callers = BaseCallers
    /\ provFailed = 0
    /\ Len(tpaths) = 2
    /\ BinariesOf(tpaths) = {"service-a", "service-b"}

\* C4: the callers of a declaration position are requested at most once in a
\* trace, and every trace ends, also on a call graph with recursion.
C4_Termination ==
    /\ [](\A f \in Funcs :
             Cardinality({g \in Funcs : Key(Item(g)) = Key(Item(f))}) = 1
             /\ requests[f] <= 1)
    /\ <>(tpc = "done")

\* a trace over a graph with direct and mutual recursion has ended, after
\* requesting the callers of the functions on the cycles once each
C4_Witness ==
    /\ tpc = "done"
    /\ terr = Nil
    /\ "ProcA" \in callers["ProcA"]
    /\ "ProcA" \in callers["RunA"]
    /\ requests["ProcA"] = 1
    /\ requests["LogicA"] = 1
    /\ requests["RunA"] = 1

C11_DirectCallReported ==
    (/\ tpc = "done"
     /\ terr = Nil
     /\ provFailed = 0
     /\ Owner(tsym.Decl) # "shared"
     /\ MainOf(Owner(tsym.Decl)) # tsym.Decl
     /\ MainOf(Owner(tsym.Decl)) \in callers[tsym.Decl])
        => Owner(tsym.Decl) \in BinariesOf(tpaths)

C16_FailureYieldsNoPaths ==
    (tpc = "done" /\ (terr # Nil \/ provFailed > 0)) => tpaths = <<>>

\* the function a node of a path stands for
FunctionOf(node) == CHOOSE f \in Funcs : NodeOf(Item(f)) = node

\* C17: every CallPath a function trace emits starts at the entry-point main
\* it reached and ends at the changed symbol, each node is a caller the
\* provider reports for the node after it, and no declaration position occurs
\* twice along the path.
C17_PathShape ==
    \A i \in 1..Len(tpaths) :
        LET p == tpaths[i].Path
            fn(j) == FunctionOf(p[j])
        IN  /\ Len(p) >= 1
            /\ \A j \in 1..Len(p) : \E f \in Funcs : NodeOf(Item(f)) = p[j]
            /\ isMainFunction(Item(fn(1)))
            /\ tpaths[i].BinaryName = GetBinaryName(Item(fn(1)))
            /\ tpaths[i].MainURI = Item(fn(1)).URI
            /\ fn(Len(p)) = tsym.Decl
            /\ \A j \in 1..(Len(p) - 1) : fn(j) \in callers[fn(j + 1)]
            /\ \A j, k \in 1..Len(p) :
                  j # k => Key(Item(fn(j))) # Key(Item(fn(k)))

\* a trace of LogMessage over a graph in which ProcessRequest of service-a
\* calls itself reported service-a through ProcessRequest, once on the path
C17_Witness ==
    /\ tpc = "done" /\ tsym = [Kind |-> "Function", Decl |-> "LogMessage"]
    /\ "ProcA" \in callers["ProcA"]
    /\ \E i \in 1..Len(tpaths) :
          /\ tpaths[i].BinaryName = "service-a"
          /\ Len(tpaths[i].Path) >= 3
          /\ FunctionOf(tpaths[i].Path[2]) = "ProcA"

(***************************************************************************)
(* The boundary rules of the library's traversal (checked under SpecDirect)*)
(***************************************************************************)
\* the function a node with a full import path stands for
DirectFunctionOf(node) == CHOOSE f \in Funcs : DirectNodeOf(Item(f)) = node

\* the names of the binaries whose main is in a set of functions
BinariesAmong(S) == {GetBinaryName(Item(f)) : f \in {g \in S : isMainFunction(Item(g))}}

C13_CacheRoundTrip ==
    (cpc = "done" /\ chit # {})
        => /\ cret = [paths |-> stored[csym], err |-> Nil]
           /\ cprov = 0

\* after a restart the result of RunServer comes back from the persistent tier
\* although another function of the same file has a different stored result
C13_Witness ==
    /\ cpc = "done" /\ csym = "RunServer" /\ chit = {"persistent"}
    /\ cprov = 0 /\ cret.err = Nil /\ Len(cret.paths) = 1
    /\ stored["LogMessage"] # stored["RunServer"]
    /\ "persistent" \in tiers["LogMessage"]

\* C14: a persistent entry that cannot be read or deserialized is a miss: the
\* call goes on to the in-process tier and, when that misses too, makes one
\* fresh trace and returns its result; no cache error is ever returned.
C14_DamagedEntryIsMiss ==
    (cpc = "done" /\ cdamaged)
        => /\ cret.err # CacheError
           /\ chit = {} => (cprov = 1 /\ cret = ccomputed)
           /\ chit # {} => (cprov = 0 /\ cret.paths = memory[CacheKey(csym)].paths)

\* a call that met bytes that are no JSON traced afresh and replaced them
C14_Witness ==
    /\ cpc = "done" /\ cdamaged /\ chit = {}
    /\ cprov = 1 /\ cret.err = Nil /\ Len(cret.paths) = 1
    /\ persistent[CacheKey(csym)] = Data(Marshal(cret.paths))

(***************************************************************************)
(* Cancellation (checked under SpecCancel)                                 *)
(***************************************************************************)
\* C15: cancellation is all-or-nothing: when the context was cancelled while
\* per-symbol traces were in flight, Analyze returns no AffectedBinary, not even
\* those of the symbols whose traces had completed.
C15_CancelDiscards ==
    (apc = "done" /\ cancelled) => retBinaries = <<>>

(***************************************************************************)
(* The score filter (checked under SpecScore)                              *)
(***************************************************************************)
\* the length of the longest string that starts both package paths
SharedPrefixLen(pkgA, pkgB) ==
    LET a == PathString(pkgA)
        b == PathString(pkgB)
        agree == {k \in 0..Len(a) : k <= Len(b) /\ SubSeq(a, 1, k) = SubSeq(b, 1, k)}
    IN  CHOOSE k \in agree : \A m \in agree : m <= k

RECURSIVE SumTo(_, _)
SumTo(term(_), n) == IF n = 0 THEN 0 ELSE term(n) + SumTo(term, n - 1)

\* the score the rule gives a caller package
RuleCScore(callerPkg) ==
    LET tenth(j) == SharedPrefixLen(scurrentPath[j], callerPkg) \div 10
    IN  SumTo(tenth, Len(scurrentPath))
        + (SharedPrefixLen(Head(scurrentPath), callerPkg) \div 5)
        + 100 * Cardinality({j \in 1..Len(scurrentPath) : scurrentPath[j] = callerPkg})

\* C20 (Rule C): when the filter applies every caller is scored with the sum
\* over the path nodes of floor(prefix/10), plus floor(prefix with the current
\* package / 5), plus 100 per path node in the caller's package; exactly the
\* callers whose score is at least half of the highest score are retained, a
\* highest-scoring caller among them, so the retained set is never empty.
C20_ScoreThreshold ==
    (spc = "done" /\ DOMAIN scores # {})
        => LET top == CHOOSE m \in {RuleCScore(c) : c \in sincoming} :
                         \A c \in sincoming : RuleCScore(c) <= m
           IN  /\ DOMAIN scores = sincoming
               /\ \A c \in sincoming : scores[c] = RuleCScore(c)
               /\ sretained = {c \in sincoming : 2 * RuleCScore(c) >= top}
               /\ \E c \in sretained : RuleCScore(c) = top
               /\ sretained # {}

\* a caller with exactly half of the highest score was kept and a caller with
\* less was dropped
C20_Witness ==
    /\ spc = "done" /\ DOMAIN scores # {}
    /\ \E c, d \in sretained : scores[c] > 0 /\ 2 * scores[c] = scores[d]
    /\ sretained # sincoming

\* the shared package among the packages the filter is run on
SharedScorePkgs == {<<"repo", "pkg", "grace">>}

\* C21 (Rule C, frame): the filter returns the callers as they came, none
\* discarded and none scored, when the item being expanded lies in a shared
\* package, or is not method-like (no receiver in its name and not of kind
\* method), or has callers from a single package only.
C21_FilterSkipped ==
    (/\ spc = "done"
     /\ \/ Head(scurrentPath) \in SharedScorePkgs
        \/ (Len(sitem.Name) = 1 /\ sitem.Kind # "Method")
        \/ Cardinality(sincoming) = 1)
        => (sretained = sincoming /\ DOMAIN scores = {})

\* a method in the shared package kept a caller whose score is below half of
\* the highest
C21_Witness ==
    /\ spc = "done" /\ sitem.Kind = "Method"
    /\ Head(scurrentPath) \in SharedScorePkgs
    /\ Cardinality(sincoming) > 1
    /\ sretained = sincoming
    /\ \E c, d \in sincoming : 2 * RuleCScore(c) < RuleCScore(d)


\* the roots the documentation calls shared and service-private
SharedRoots == {"pkg", "api", "common", "shared", "lib"}

PrivateRoots == {"internal", "cmd"}

\* a shared-root segment with no service-private root before it
ClaimedShared(p) ==
    \E i \in 1..Len(p) :
        /\ p[i] \in SharedRoots
        /\ \A j \in 1..(i - 1) : p[j] \notin PrivateRoots

DirIdentity(dir) ==
    LET hit == {i \in 1..Len(dir) : dir[i] \in StandardDirs} IN
    IF hit = {} THEN ""
    ELSE LET first == CHOOSE i \in hit : \A j \in hit : i <= j IN
         IF dir[first] \in PrivateRoots /\ first < Len(dir)
         THEN dir[first + 1]
         ELSE ""

\* the service of a package path that starts with a service-private root
PkgIdentity(p) ==
    IF Len(p) >= 2 /\ p[1] \in PrivateRoots THEN p[2] ELSE ""

\* C23 (service identity): the identity of a package is the first segment
\* after cmd/ or internal/ and empty for every other package; a caller is
\* rejected as cross-service only if it has a non-empty identity and some node
\* of the path has a different non-empty identity, so a package without an
\* identity never causes a rejection.
C23_ServiceIdentity ==
    bpc = "done" =>
        /\ bservice = DirIdentity(bdir)
        /\ bcross <=>
              /\ bservice # ""
              /\ \E i \in 1..Len(bpath) :
                    PkgIdentity(bpath[i].PackagePath) \notin {"", bservice}
        /\ bservice = "" => ~bcross

\* a caller of service bill is rejected because of one node of another
\* service, the other node of the path having no identity
C23_Witness ==
    /\ bpc = "done"
    /\ bcross
    /\ bservice = "bill"
    /\ Len(bpath) = 2
    /\ \E i \in 1..2 : PkgIdentity(bpath[i].PackagePath) = ""


\* the entry points of the workspace: the declarations named main
EntryPoints == {f \in Funcs : Item(f).Name = "main"}

\* C24 (trace-local pruning): within one top-level trace at most one CallPath
\* is emitted per binary name, and the callers of an entry-point main are
\* never requested or expanded.
C24_TracePruning ==
    /\ \A i, j \in 1..Len(tpaths) :
          tpaths[i].BinaryName = tpaths[j].BinaryName => i = j
    /\ \A f \in EntryPoints : requests[f] = 0
    /\ \A k \in 1..Len(stack) :
          stack[k].fn \in EntryPoints => stack[k].phase = "enter"

\* a finished trace that reached the main functions of cmd/a/server and
\* cmd/b/server and emitted one path for the name server
C24_Witness ==
    /\ tpc = "done" /\ terr = Nil
    /\ Cardinality({f \in EntryPoints : Key(Item(f)) \in visited}) = 2
    /\ Len(tpaths) = 1
    /\ tpaths[1].BinaryName = "server"
    /\ \E f \in Funcs \ EntryPoints : requests[f] > 0

\* C29 (no entry package lost): every entry package a successful trace
\* reached is represented in the result by an entry carrying that package;
\* cmd/a/server and cmd/b/server, whose binary names coincide, are not merged.
C29_NoEntryPackageLost ==
    (tpc = "done" /\ terr = Nil) =>
        \A f \in EntryPoints :
            Key(Item(f)) \in visited =>
                \E i \in 1..Len(tpaths) : tpaths[i].MainURI = Item(f).URI

(***************************************************************************)
(* The tasks of Analyze (checked under SpecAnalyze and FairSpecAnalyze)    *)
(***************************************************************************)
\* C25: in one Analyze call every supported changed symbol is traced exactly
\* once and no filtered symbol is traced; each task sends exactly one result
\* message, after its trace has returned, and the message is what the trace
\* returned: its whole list of paths or its error.
C25_OneTraceOneMessage ==
    /\ [](/\ \A i \in Workers :
                /\ traceCalls[i] = IF wpc[i] \in {"traced", "done"} THEN 1 ELSE 0
                /\ i \notin Range(supportedChanges) => wpc[i] = "none"
          /\ apc = "done" => \A i \in Range(supportedChanges) : wpc[i] = "done"
          /\ Range(results) \subseteq TraceOutcomes
          /\ Len(results) <= Cardinality({i \in Workers : wpc[i] = "done"}))
    /\ [][Len(results') > Len(results) =>
             \E i \in Workers :
                 /\ wpc[i] = "traced" /\ wpc'[i] = "done"
                 /\ wout[i] \in TraceOutcomes
                 /\ results' = Append(results, wout[i])]_vars

\* Analyze has returned after two tasks, each traced once, one of which sent
\* an error and the other its paths
C25_Witness ==
    /\ apc = "done"
    /\ Len(supportedChanges) = 2
    /\ \A i \in Range(supportedChanges) : traceCalls[i] = 1 /\ wpc[i] = "done"
    /\ failures = 1
    /\ retBinaries # <<>>


\* C26 (fan-in): under every interleaving the collecting loop has received the
\* result of every task when Analyze returns; a worker that has its result can
\* always send it and does; the channel is closed once, after the last send,
\* and nothing is sent on it afterwards; and Analyze returns.
C26_FanInComplete ==
    /\ [](/\ apc = "done" =>
                /\ results = <<>>
                /\ \A i \in Range(supportedChanges) : wpc[i] = "done"
                /\ supportedChanges # <<>> => closed
          /\ \A i \in Workers :
                wpc[i] = "traced" => (~closed /\ Len(results) < Len(supportedChanges))
          /\ closed => \A i \in Range(supportedChanges) : wpc[i] = "done")
    /\ [][/\ closed => (closed' /\ Len(results') <= Len(results))
          /\ Len(results') < Len(results) =>
                (apc = "collect" /\ results' = Tail(results))]_vars
    /\ \A i \in Workers : (wpc[i] = "traced") ~> (wpc[i] = "done")
    /\ <>(apc = "done")

\* Analyze has returned after the channel, which held the results of both
\* tasks at once, was closed and drained
C26_Witness ==
    /\ apc = "done"
    /\ closed
    /\ results = <<>>
    /\ Len(supportedChanges) = 2
    /\ seenBinaries # {}
    /\ Len(retBinaries) = Cardinality(seenBinaries)


(***************************************************************************)
(* Dispatch (checked under SpecDispatch)                                   *)
(***************************************************************************)
\* C27 (dispatch consistency): every kind Analyze lets through is routed by
\* DirectCallTracer.TraceToMain to a strategy: Function to the call trace,
\* Constant and Variable to the reference trace, Init and a blank Import to
\* the import search; none of them gets an error for its kind.
C27_DispatchConsistent ==
    dpc = "done" =>
        LET routed ==
              CASE dsym.Kind = "Function" -> "calls"
                [] dsym.Kind \in {"Constant", "Variable"} -> "references"
                [] dsym.Kind = "Init" -> "imports"
                [] dsym.Kind = "Import" /\ dsym.Extra # NoExtra
                       /\ IsBlankImport(dsym.Extra) -> "imports"
                [] OTHER -> "any"
        IN  routed # "any" => (dout.strategy = routed /\ dout.err = Nil)


(***************************************************************************)
(* Order of the callers (checked under SpecRetrace)                        *)
(***************************************************************************)
\* C28 (order independence): for a fixed caller graph the set of binaries a
\* trace returns does not depend on the order in which the provider lists the
\* callers of each node: two traces of one symbol in which no request failed
\* return the same set.
C28_OrderIndependent ==
    (/\ oround = 2 /\ tpc = "done"
     /\ provFailed = 0
     /\ terr = Nil /\ oprev.err = Nil)
        => BinariesOf(tpaths) = oprev.binaries


(***************************************************************************)
(* ParseDiff (checked under SpecParse)                                     *)
(***************************************************************************)
RECURSIVE NewFileNumbers(_, _)
\* the new-file line numbers of the added lines of a body whose first line
\* of the new file has number n
NewFileNumbers(body, n) ==
    IF body = <<>> THEN <<>>
    ELSE LET line == Head(body) IN
         IF line # <<>> /\ line[1] = "+"
         THEN <<n>> \o NewFileNumbers(Tail(body), n + 1)
         ELSE IF InNewFile(line)
              THEN NewFileNumbers(Tail(body), n + 1)
              ELSE NewFileNumbers(Tail(body), n)

RECURSIVE AddedNumbers(_)
AddedNumbers(hunks) ==
    IF hunks = <<>> THEN <<>>
    ELSE NewFileNumbers(Head(hunks).Body, Head(hunks).NewStartLine)
         \o AddedNumbers(Tail(hunks))

\* C30 (ParseDiff line numbering): the ChangedLines of a file are exactly the
\* new-file line numbers of its added lines: the counter starts at the hunk's
\* NewStartLine, advances on every added and every context line and not on
\* deleted lines, also when the content of an added line begins with "++" or
\* the content of a deleted line begins with "--".
C30_ChangedLines ==
    (ppc = "done" /\ pname # "/dev/null") =>
        /\ Len(pres) = 1
        /\ pres[1].ChangedLines = AddedNumbers(phunks)

====
